---- MODULE Spec2Model ----
(***************************************************************************)
(* Review collection with AI enrichment: the text-generation gateway       *)
(* (utils/gemini_helper.py), the submission handler (app.py), the sheet    *)
(* store (utils/sheets_helper.py) and the local CSV backup.                *)
(*                                                                         *)
(* Text is a sequence of one-character strings.  The Python value None and *)
(* the pandas value NaN are one-element sequences holding a token that is  *)
(* no character, so that every cell compares with every other cell.        *)
(***************************************************************************)
EXTENDS Integers, Sequences, FiniteSets, TLC

VARIABLES sheet, backupExists, backup, nextId, last, enr, gw, pipe, race, ev

vars == <<sheet, backupExists, backup, nextId, last, enr, gw, pipe, race, ev>>

-----------------------------------------------------------------------------
(* Text helpers: Python str operations on character sequences.             *)

NoneVal == <<"<None>">>

NaN == <<"<NaN>">>

MinOf(S) == CHOOSE x \in S : \A y \in S : x <= y

MaxOf(S) == CHOOSE x \in S : \A y \in S : x >= y

\* str.isspace for one character
IsSpace(c) == c \in {" ", "\t", "\n", "\r", "\f"}

\* str.strip(): drop leading and trailing whitespace
Strip(s) ==
    LET keep == {i \in 1..Len(s) : ~IsSpace(s[i])}
    IN  IF keep = {} THEN <<>> ELSE SubSeq(s, MinOf(keep), MaxOf(keep))

\* s[:n]
Take(s, n) == SubSeq(s, 1, IF Len(s) < n THEN Len(s) ELSE n)

UpperAlpha ==
    <<"A","B","C","D","E","F","G","H","I","J","K","L","M",
      "N","O","P","Q","R","S","T","U","V","W","X","Y","Z">>

LowerAlpha ==
    <<"a","b","c","d","e","f","g","h","i","j","k","l","m",
      "n","o","p","q","r","s","t","u","v","w","x","y","z">>

LowerChar(c) ==
    IF \E i \in 1..Len(UpperAlpha) : UpperAlpha[i] = c
    THEN LowerAlpha[CHOOSE i \in 1..Len(UpperAlpha) : UpperAlpha[i] = c]
    ELSE c

\* str.lower()
Lower(s) == [i \in 1..Len(s) |-> LowerChar(s[i])]

\* w in s
Contains(s, w) ==
    \E i \in 1..(Len(s) - Len(w) + 1) : SubSeq(s, i, i + Len(w) - 1) = w

\* s.startswith(p)
StartsWith(s, p) == Len(s) >= Len(p) /\ SubSeq(s, 1, Len(p)) = p

RECURSIVE JoinLines(_)
\* "\n".join(lines)
JoinLines(lines) ==
    IF lines = <<>> THEN <<>>
    ELSE IF Len(lines) = 1 THEN lines[1]
    ELSE lines[1] \o <<"\n">> \o JoinLines(Tail(lines))

\* Python truthiness of a text-or-None value
Truthy(v) == v # NoneVal /\ v # <<>>

\* str(v) for a text-or-None value
PyStr(v) == IF v = NoneVal THEN <<"N","o","n","e">> ELSE v

-----------------------------------------------------------------------------
(* String constants of the sources.                                        *)

FallbackResponse ==
    <<"T","h","a","n","k","s"," ","f","o","r"," ","y","o","u","r"," ","f","e","e","d","b","a",
      "c","k","!"," ","W","e"," ","a","p","p","r","e","c","i","a","t","e"," ","y","o","u"," ",
      "t","a","k","i","n","g"," ","t","h","e"," ","t","i","m","e"," ","t","o"," ","w","r","i",
      "t","e"," ","u","s","."," ","(","A","I"," ","c","u","r","r","e","n","t","l","y"," ","u",
      "n","a","v","a","i","l","a","b","l","e",".",")">>

BulletSpeed ==
    <<"-"," ","I","n","v","e","s","t","i","g","a","t","e"," ","s","e","r","v","i","c","e"," ",
      "s","p","e","e","d"," ","a","n","d"," ","s","t","a","f","f","i","n","g",".">>

BulletFood ==
    <<"-"," ","C","h","e","c","k"," ","f","o","o","d"," ","p","r","e","p","a","r","a","t","i",
      "o","n"," ","&"," ","t","e","m","p","e","r","a","t","u","r","e"," ","c","o","n","t","r",
      "o","l","s",".">>

BulletStaff ==
    <<"-"," ","P","r","o","v","i","d","e"," ","s","t","a","f","f"," ","t","r","a","i","n","i",
      "n","g"," ","o","n"," ","c","u","s","t","o","m","e","r"," ","s","e","r","v","i","c","e",
      ".">>

BulletGeneric ==
    <<"-"," ","T","h","a","n","k"," ","t","h","e"," ","c","u","s","t","o","m","e","r"," ","a",
      "n","d"," ","a","s","k"," ","f","o","r"," ","m","o","r","e"," ","d","e","t","a","i","l",
      "s",".">>

ErrShapePrefix ==
    <<"E","R","R","O","R",":"," ","U","n","e","x","p","e","c","t","e","d"," ","r","e","s","p",
      "o","n","s","e"," ","s","h","a","p","e"," ","f","r","o","m"," ","G","e","m","i","n","i",
      " ","S","D","K","."," ","d","e","b","u","g","=">>

ErrCallPrefix ==
    <<"E","R","R","O","R",":"," ","G","e","m","i","n","i"," ","c","a","l","l"," ","f","a","i",
      "l","e","d",":"," ">>

ErrCallSuffix ==
    <<"."," ","S","e","e"," ","l","o","g","s","/","l","a","s","t","_","g","e","n","a","i","_",
      "e","r","r","o","r",".","t","x","t">>

ErrorMarker ==
    <<"E","R","R","O","R",":">>

Kw_slow ==
    <<"s","l","o","w">>

Kw_wait ==
    <<"w","a","i","t">>

Kw_waiting ==
    <<"w","a","i","t","i","n","g">>

Kw_delay ==
    <<"d","e","l","a","y">>

Kw_cold ==
    <<"c","o","l","d">>

Kw_undercooked ==
    <<"u","n","d","e","r","c","o","o","k","e","d">>

Kw_burnt ==
    <<"b","u","r","n","t">>

Kw_temperature ==
    <<"t","e","m","p","e","r","a","t","u","r","e">>

Kw_rude ==
    <<"r","u","d","e">>

Kw_unfriendly ==
    <<"u","n","f","r","i","e","n","d","l","y">>

Kw_hostile ==
    <<"h","o","s","t","i","l","e">>

-----------------------------------------------------------------------------
(* utils/gemini_helper.py: the text-generation gateway.                    *)
(*                                                                         *)
(* A response of the remote SDK is one of                                  *)
(*   [kind |-> "str", val]              a plain string                     *)
(*   [kind |-> "obj", text, cands, todict, tojson, result]  an object      *)
(*   [kind |-> "dict", cands, text, output]                 a dict         *)
(*   [kind |-> "other"]                 anything else (None, a number)     *)
(* An attribute slot is [st |-> "absent"], [st |-> "probe_raises"]         *)
(* (hasattr itself raises), [st |-> "raises"] (the read or call raises)    *)
(* or [st |-> "val", val |-> v].  The candidates slot is also              *)
(* [st |-> "parts", val] (candidates[0].content.parts joined),             *)
(* [st |-> "text", val] (candidates[0].text) or [st |-> "nomatch"].        *)

Absent == [st |-> "absent"]

Raises == [st |-> "raises"]

ProbeRaises == [st |-> "probe_raises"]

NoMatch == [st |-> "nomatch"]

Val(v) == [st |-> "val", val |-> v]

Parts(v) == [st |-> "parts", val |-> v]

CandText(v) == [st |-> "text", val |-> v]

StrResp(v) == [kind |-> "str", val |-> v]

ObjResp(t, c, d, j, r) ==
    [kind |-> "obj", text |-> t, cands |-> c, todict |-> d, tojson |-> j, result |-> r]

DictResp(c, t, o) == [kind |-> "dict", cands |-> c, text |-> t, output |-> o]

OtherResp == [kind |-> "other"]

\* the debug labels of _extract_text_from_response
DbgStr == <<"s","t","r">>

DbgHasText == <<"h","a","s"," ",".","t","e","x","t">>

DbgCandParts == <<"c","a","n","d","i","d","a","t","e","s","-",">","c","o","n","t","e","n","t",
                  ".","p","a","r","t","s">>

DbgCandText == <<"c","a","n","d","i","d","a","t","e","s","-",">","t","e","x","t">>

DbgDictParts == <<"d","i","c","t"," ">> \o DbgCandParts

DbgDictText == <<"d","i","c","t","-",">","t","e","x","t">>

DbgDictOutput == <<"d","i","c","t","-",">","o","u","t","p","u","t">>

\* "unrecognized-response-type: " followed by the type and repr of the value,
\* which are kept as one opaque token
DbgUnrecognized ==
    <<"u","n","r","e","c","o","g","n","i","z","e","d","-","r","e","s","p","o","n","s","e",
      "-","t","y","p","e",":"," ","<repr>">>

\* "_extract_text_exception: " followed by the repr of the exception
DbgException ==
    <<"_","e","x","t","r","a","c","t","_","t","e","x","t","_","e","x","c","e","p","t","i",
      "o","n",":"," ","<repr>">>

Extracted(ok, text, debug) == [ok |-> ok, text |-> text, debug |-> debug]

Unrecognized == Extracted(FALSE, NoneVal, DbgUnrecognized)

\* the dict shapes with "output" looked up before "text"
ExtractDictOutputFirst(resp) ==
    IF resp.kind # "dict" THEN [fall |-> TRUE]
    ELSE IF resp.cands.st = "raises" THEN [fall |-> TRUE]
    ELSE IF resp.cands.st = "parts"
         THEN [fall |-> FALSE, res |-> Extracted(TRUE, resp.cands.val, DbgDictParts)]
    ELSE IF resp.output.st = "val"
         THEN [fall |-> FALSE, res |-> Extracted(TRUE, PyStr(resp.output.val), DbgDictOutput)]
    ELSE IF resp.text.st = "val"
         THEN [fall |-> FALSE, res |-> Extracted(TRUE, resp.text.val, DbgDictText)]
    ELSE [fall |-> TRUE]

\* lines 42-57: the dict shapes; "fall" means no return was reached
ExtractDict(resp) ==
    IF resp.kind # "dict" THEN [fall |-> TRUE]
    ELSE IF resp.cands.st = "raises" THEN [fall |-> TRUE]
    ELSE IF resp.cands.st = "parts"
         THEN [fall |-> FALSE, res |-> Extracted(TRUE, resp.cands.val, DbgDictParts)]
    ELSE IF resp.text.st = "val"
         THEN [fall |-> FALSE, res |-> Extracted(TRUE, resp.text.val, DbgDictText)]
    ELSE IF resp.output.st = "val"
         THEN [fall |-> FALSE, res |-> Extracted(TRUE, PyStr(resp.output.val), DbgDictOutput)]
    ELSE [fall |-> TRUE]

\* the attribute slots of a value; only objects have attributes
Slot(resp, name) ==
    IF resp.kind # "obj" THEN Absent
    ELSE CASE name = "text" -> resp.text
           [] name = "cands" -> resp.cands
           [] name = "todict" -> resp.todict
           [] name = "tojson" -> resp.tojson
           [] name = "result" -> resp.result

RECURSIVE ExtractFrom(_, _)
\* _extract_text_from_response, entered at one of its checks in source order
ExtractFrom(resp, step) ==
    CASE step = "str" ->
           IF resp.kind = "str" THEN Extracted(TRUE, resp.val, DbgStr)
           ELSE ExtractFrom(resp, "text")
      [] step = "text" ->
           LET a == Slot(resp, "text")
           IN  IF a.st = "probe_raises" THEN Extracted(FALSE, NoneVal, DbgException)
               ELSE IF a.st = "val" THEN Extracted(TRUE, a.val, DbgHasText)
               ELSE ExtractFrom(resp, "cands")
      [] step = "cands" ->
           LET a == Slot(resp, "cands")
           IN  IF a.st = "probe_raises" THEN Extracted(FALSE, NoneVal, DbgException)
               ELSE IF a.st = "parts" THEN Extracted(TRUE, a.val, DbgCandParts)
               ELSE IF a.st = "text" THEN Extracted(TRUE, a.val, DbgCandText)
               ELSE ExtractFrom(resp, "dict")
      [] step = "dict" ->
           LET d == ExtractDict(resp)
           IN  IF d.fall THEN ExtractFrom(resp, "todict") ELSE d.res
      [] step = "todict" ->
           LET a == Slot(resp, "todict")
           IN  IF a.st = "probe_raises" THEN Extracted(FALSE, NoneVal, DbgException)
               ELSE IF a.st = "val" THEN ExtractFrom(a.val, "str")
               ELSE ExtractFrom(resp, "tojson")
      [] step = "tojson" ->
           LET a == Slot(resp, "tojson")
           IN  IF a.st = "probe_raises" THEN Extracted(FALSE, NoneVal, DbgException)
               ELSE IF a.st = "val" THEN ExtractFrom(a.val, "str")
               ELSE ExtractFrom(resp, "result")
      [] step = "result" ->
           LET a == Slot(resp, "result")
           IN  IF a.st = "probe_raises" THEN Extracted(FALSE, NoneVal, DbgException)
               ELSE IF a.st = "val" THEN ExtractFrom(a.val, "str")
               ELSE Unrecognized

\* _extract_text_from_response(resp) -> (ok, text, debug)
ExtractTextFromResponse(resp) == ExtractFrom(resp, "str")

\* stop_after_attempt(3) of the retry decorator
StopAfterAttempt == 3

\* the text of the except branch: "ERROR: Gemini call failed: <repr>. See logs/..."
ErrCallFailed == ErrCallPrefix \o <<"<repr>">> \o ErrCallSuffix

BodyResult(raised, ok, text, calls) ==
    [raised |-> raised, ok |-> ok, text |-> text, calls |-> calls]

\* an alternative client call (CLIENT.generate, CLIENT.models.generate): the
\* attribute may be absent, the call may raise, or it returns a response
AltText(alt) ==
    IF alt.st = "val"
    THEN LET e == ExtractTextFromResponse(alt.val)
         IN  IF e.ok /\ Truthy(e.text) THEN e.text ELSE NoneVal
    ELSE NoneVal

AltCalls(alt) == IF alt.st = "absent" THEN 0 ELSE 1

\* lines 84-105: the remote call returned a response
GenaiBodyOnResponse(resp, alt, alt2) ==
    LET e == ExtractTextFromResponse(resp)
    IN  IF e.ok /\ Truthy(e.text) THEN BodyResult(FALSE, TRUE, e.text, 1)
        ELSE IF AltText(alt) # NoneVal
             THEN BodyResult(FALSE, TRUE, AltText(alt), 1 + AltCalls(alt))
        ELSE IF AltText(alt2) # NoneVal
             THEN BodyResult(FALSE, TRUE, AltText(alt2),
                             1 + AltCalls(alt) + AltCalls(alt2))
        ELSE BodyResult(FALSE, FALSE, ErrShapePrefix \o e.debug,
                        1 + AltCalls(alt) + AltCalls(alt2))

\* the body with the except branch missing: the exception leaves the body
GenaiBodyNoCatch(primary, alt, alt2) ==
    IF primary.st = "raises"
    THEN BodyResult(TRUE, FALSE, NoneVal, 1)
    ELSE GenaiBodyOnResponse(primary.val, alt, alt2)

\* the body of genai_generate_text: one attempt.  primary is Raises (the remote
\* call raised) or Val(response).  Every Exception is caught inside the body
\* (lines 106-112), so the body itself never raises; the error log is taken to
\* be writable (line 5 creates its directory).
GenaiBody(primary, alt, alt2) ==
    IF primary.st = "raises"
    THEN BodyResult(FALSE, FALSE, ErrCallFailed, 1)
    ELSE GenaiBodyOnResponse(primary.val, alt, alt2)

RECURSIVE RetryFrom(_, _, _)
\* the tenacity wrapper: run the body again only when it raised, at most
\* StopAfterAttempt times, then raise RetryError
RetryFrom(env, k, calls) ==
    LET b == GenaiBody(env.attempts[k], env.alt, env.alt2)
    IN  IF b.raised
        THEN IF k < StopAfterAttempt
             THEN RetryFrom(env, k + 1, calls + b.calls)
             ELSE [raised |-> TRUE, ok |-> FALSE, text |-> NoneVal,
                   attempts |-> k, calls |-> calls + b.calls]
        ELSE [raised |-> FALSE, ok |-> b.ok, text |-> b.text,
              attempts |-> k, calls |-> calls + b.calls]

\* genai_generate_text(prompt) under the environment env:
\* env.attempts[k] is what the remote call of attempt k would do
GenaiGenerateText(env) == RetryFrom(env, 1, 0)

(* The responses the gateway is exercised with.                            *)

TextA == <<"o","k">>

TextB == <<"f","i","n","e">>

StrResps == {StrResp(v) : v \in {<<>>, TextA}}

TextSlots == {Absent, ProbeRaises, Raises, Val(NoneVal), Val(<<>>), Val(TextA)}

CandSlots ==
    {Absent, ProbeRaises, Raises, NoMatch, Parts(<<>>), Parts(TextB),
     CandText(NoneVal), CandText(TextB)}

DictResps ==
    {DictResp(c, t, o) :
        c \in {Absent, Raises, Parts(<<>>), Parts(TextA)},
        t \in {Absent, Val(NoneVal), Val(<<>>), Val(TextB)},
        o \in {Absent, Val(NoneVal), Val(TextA)}}

NestedResps ==
    {StrResp(TextB), OtherResp, DictResp(Absent, Val(TextB), Absent),
     DictResp(Absent, Absent, Val(NoneVal)), DictResp(Raises, Val(TextB), Absent)}

ConvSlots == {Absent, Raises} \cup {Val(n) : n \in NestedResps}

ObjResps ==
    {ObjResp(t, c, Absent, Absent, Absent) : t \in TextSlots, c \in CandSlots}
    \cup {ObjResp(Absent, NoMatch, d, j, r) : d \in ConvSlots, j \in ConvSlots, r \in ConvSlots}
    \cup {ObjResp(Absent, Absent, ProbeRaises, Absent, Absent),
          ObjResp(Raises, Raises, Absent, ProbeRaises, Val(StrResp(TextB))),
          ObjResp(Raises, Raises, Absent, Absent, ProbeRaises)}

Responses == StrResps \cup ObjResps \cup DictResps \cup {OtherResp}

RetryOutcomes == {Raises, Val(StrResp(TextB))}

AltOutcomes == {Absent, Raises, Val(StrResp(TextA)), Val(OtherResp)}

GatewayEnvs ==
    [attempts : ({Raises} \cup {Val(r) : r \in Responses})
                    \X RetryOutcomes \X RetryOutcomes,
     alt : AltOutcomes, alt2 : AltOutcomes]

-----------------------------------------------------------------------------
(* The gateway on its own: one call of genai_generate_text per behaviour.  *)

GwInit ==
    /\ gw \in [phase : {"idle"}, env : GatewayEnvs]
    /\ sheet = <<>> /\ backupExists = FALSE /\ backup = <<>> /\ nextId = 0
    /\ last = [op |-> "none"] /\ enr = [phase |-> "none"]
    /\ pipe = [phase |-> "none"] /\ race = [phase |-> "none"] /\ ev = [phase |-> "none"]

GwCall ==
    /\ gw.phase = "idle"
    /\ gw' = [phase |-> "done", env |-> gw.env, res |-> GenaiGenerateText(gw.env)]
    /\ UNCHANGED <<sheet, backupExists, backup, nextId, last, enr, pipe, race, ev>>

GwNext == GwCall

SpecGateway == GwInit /\ [][GwNext]_vars

-----------------------------------------------------------------------------
(* app.py: validation and enrichment of one submission.                    *)

\* review.strip()[:200]
SummaryMax == 200

\* st.slider("Select rating (1 to 5)", 1, 5, 5)
MinRating == 1

MaxRating == 5

Ratings == MinRating..MaxRating

DigitChars == <<"0","1","2","3","4","5","6","7","8","9">>

RECURSIVE Digits(_)
\* str(n) for a natural number
Digits(n) ==
    IF n < 10 THEN <<DigitChars[n + 1]>>
    ELSE Digits(n \div 10) \o <<DigitChars[(n % 10) + 1]>>

\* the guard of line 19 with the strip() missing
IsRejectedNoStrip(review) == review = <<>>

\* line 19: not review.strip()
IsRejected(review) == Strip(review) = <<>>

\* any(w in low for w in words)
AnyIn(low, words) == \E w \in words : Contains(low, w)

SpeedWords == {Kw_slow, Kw_wait, Kw_waiting, Kw_delay}

FoodWords == {Kw_cold, Kw_undercooked, Kw_burnt, Kw_temperature}

StaffWords == {Kw_rude, Kw_unfriendly, Kw_hostile}

\* the keyword rules as an if/elif chain: the first matching rule only
ActionsFallbackFirstMatch(review) ==
    LET low == Lower(review)
    IN  IF AnyIn(low, SpeedWords) THEN BulletSpeed
        ELSE IF AnyIn(low, FoodWords) THEN BulletFood
        ELSE IF AnyIn(low, StaffWords) THEN BulletStaff
        ELSE BulletGeneric

\* the keyword rules without the generic bullet of lines 44-45
ActionsFallbackNoGeneric(review) ==
    LET low == Lower(review)
        s1 == IF AnyIn(low, SpeedWords) THEN <<BulletSpeed>> ELSE <<>>
        s2 == IF AnyIn(low, FoodWords) THEN <<BulletFood>> ELSE <<>>
        s3 == IF AnyIn(low, StaffWords) THEN <<BulletStaff>> ELSE <<>>
    IN  JoinLines(s1 \o s2 \o s3)

\* lines 36-46: the keyword rules
ActionsFallback(review) ==
    LET low == Lower(review)
        s1 == IF AnyIn(low, SpeedWords) THEN <<BulletSpeed>> ELSE <<>>
        s2 == IF AnyIn(low, FoodWords) THEN <<BulletFood>> ELSE <<>>
        s3 == IF AnyIn(low, StaffWords) THEN <<BulletStaff>> ELSE <<>>
        suggestions == s1 \o s2 \o s3
    IN  JoinLines(IF suggestions = <<>> THEN <<BulletGeneric>> ELSE suggestions)

\* line 34 without the strip()
SummaryFallbackNoStrip(review) == Take(review, SummaryMax)

\* line 34: review.strip()[:200]
SummaryFallback(review) == Take(Strip(review), SummaryMax)

\* lines 27-46 with ok_s deciding the actions fallback too
EnrichShared(review, r, s, a) ==
    [ai_response |-> IF r.ok THEN r.text ELSE FallbackResponse,
     ai_summary  |-> IF s.ok THEN s.text ELSE SummaryFallback(review),
     ai_actions  |-> IF s.ok /\ a.ok THEN a.text ELSE ActionsFallback(review)]

\* lines 27-46: r, s, a are the results of the three gateway calls
Enrich(review, r, s, a) ==
    [ai_response |-> IF r.ok THEN r.text ELSE FallbackResponse,
     ai_summary  |-> IF s.ok THEN s.text ELSE SummaryFallback(review),
     ai_actions  |-> IF a.ok THEN a.text ELSE ActionsFallback(review)]

ColId == <<"i","d">>

ColTimestamp == <<"t","i","m","e","s","t","a","m","p">>

ColRating == <<"r","a","t","i","n","g">>

ColReview == <<"r","e","v","i","e","w">>

ColAiResponse == <<"a","i","_","r","e","s","p","o","n","s","e">>

ColAiSummary == <<"a","i","_","s","u","m","m","a","r","y">>

ColAiActions == <<"a","i","_","a","c","t","i","o","n","s">>

\* the fixed column order (sheets_helper.py lines 228 and 240)
Header ==
    <<ColId, ColTimestamp, ColRating, ColReview, ColAiResponse, ColAiSummary, ColAiActions>>

\* str(uuid.uuid4()): the n-th identifier handed out
NewId(n) == <<"u">> \o Digits(n)

\* datetime.utcnow().isoformat() at the n-th accepted submission
Timestamp(n) == <<"t">> \o Digits(n)

\* lines 48-56, as the list of cells append_submission builds (line 250)
MakeRow(n, rating, review, art) ==
    <<NewId(n), Timestamp(n), Digits(rating), review,
      art.ai_response, art.ai_summary, art.ai_actions>>

-----------------------------------------------------------------------------
(* utils/sheets_helper.py: the sheet is the list of its rows, row 1 first.  *)

\* ws.update("A1:G1", [header]): overwrite the first cells of row 1
SetRow1(sh, header) ==
    IF sh = <<>> THEN <<header>>
    ELSE [sh EXCEPT ![1] = header \o SubSeq(@, Len(header) + 1, Len(@))]

\* ws.row_values(1)
RowValues1(sh) == IF sh = <<>> THEN <<>> ELSE sh[1]

\* which store calls of one append_submission fail
AppendFailures ==
    {f \in [open : BOOLEAN, rowValues : BOOLEAN, update : BOOLEAN,
            insert : BOOLEAN, append : BOOLEAN] :
        /\ f.open => ~(f.rowValues \/ f.update \/ f.insert \/ f.append)
        /\ f.insert => f.update
        /\ (f.update /\ f.insert) => ~f.append}

NoFailure ==
    [open |-> FALSE, rowValues |-> FALSE, update |-> FALSE, insert |-> FALSE,
     append |-> FALSE]

\* append_submission writing the record under the header, above the older ones
AppendSubmissionNewestFirst(sh, row, f) ==
    IF f.open THEN [sheet |-> sh, raised |-> TRUE]
    ELSE LET existing == IF f.rowValues THEN <<>> ELSE RowValues1(sh)
             need == existing = <<>> \/ Take(existing, Len(Header)) # Header
         IN  IF need /\ f.update /\ f.insert THEN [sheet |-> sh, raised |-> TRUE]
             ELSE LET sh1 == IF ~need THEN sh
                             ELSE IF ~f.update THEN SetRow1(sh, Header)
                             ELSE <<Header>> \o sh
                  IN  IF f.append THEN [sheet |-> sh1, raised |-> TRUE]
                      ELSE [sheet |-> <<sh1[1], row>> \o Tail(sh1), raised |-> FALSE]

\* append_submission(row_dict): the sheet afterwards and whether it raised
AppendSubmission(sh, row, f) ==
    IF f.open THEN [sheet |-> sh, raised |-> TRUE]
    ELSE LET existing == IF f.rowValues THEN <<>> ELSE RowValues1(sh)
             need == existing = <<>> \/ Take(existing, Len(Header)) # Header
         IN  IF need /\ f.update /\ f.insert THEN [sheet |-> sh, raised |-> TRUE]
             ELSE LET sh1 == IF ~need THEN sh
                             ELSE IF ~f.update THEN SetRow1(sh, Header)
                             ELSE <<Header>> \o sh
                  IN  IF f.append THEN [sheet |-> sh1, raised |-> TRUE]
                      ELSE [sheet |-> Append(sh1, row), raised |-> FALSE]

\* the characters of a text int() may accept
IntChars == {DigitChars[d] : d \in 1..Len(DigitChars)} \cup {"+", "-", " ", "\t", "\n", "\r", "\f"}

\* int(value) of gspread's numericise: the text read as a whole number, written
\* back as the decimal text of that number; any other text is kept
Numericise(v) ==
    IF v = NoneVal \/ \E i \in 1..Len(v) : v[i] \notin IntChars THEN v
    ELSE LET t == Strip(v)
             signed == t # <<>> /\ t[1] \in {"+", "-"}
             body == IF signed THEN Tail(t) ELSE t
             nz == {i \in 1..Len(body) : body[i] # "0"}
         IN  IF body = <<>> \/ \E i \in 1..Len(body) : body[i] \notin {DigitChars[d] : d \in 1..Len(DigitChars)}
             THEN v
             ELSE IF nz = {} THEN <<"0">>
             ELSE (IF signed /\ t[1] = "-" THEN <<"-">> ELSE <<>>)
                  \o SubSeq(body, MinOf(nz), Len(body))

\* header.index(key), the + 1 forgotten
ColIndexOffByOne(header, key) == MinOf({i \in 1..Len(header) : header[i] = key}) - 1

\* header.index(key) + 1
ColIndex(header, key) == MinOf({i \in 1..Len(header) : header[i] = key})

\* rec.get(key) of the record get_all_records builds from a row
RecGet(header, row, key) ==
    IF \E i \in 1..Len(header) : header[i] = key /\ i <= Len(row)
    THEN row[MinOf({i \in 1..Len(header) : header[i] = key})]
    ELSE NoneVal

\* the scan of lines 261-262 going on to the last record whose id matches
FindRowLast(sh, subId) ==
    LET hits == {i \in 2..Len(sh) :
                    PyStr(Numericise(RecGet(sh[1], sh[i], ColId))) = PyStr(subId)}
    IN  IF hits = {} THEN 0 ELSE MaxOf(hits)

\* the scan of lines 261-262, falling back to the first record
FindRowOrFirst(sh, subId) ==
    LET hits == {i \in 2..Len(sh) : PyStr(Numericise(RecGet(sh[1], sh[i], ColId))) = PyStr(subId)}
    IN  IF hits = {} THEN 2 ELSE MinOf(hits)

\* lines 257 and 261-262: the sheet row of the first record of get_all_records
\* whose id matches, 0 if none
FindRow(sh, subId) ==
    LET hits == {i \in 2..Len(sh) : PyStr(Numericise(RecGet(sh[1], sh[i], ColId))) = PyStr(subId)}
    IN  IF hits = {} THEN 0 ELSE MinOf(hits)

RECURSIVE WriteCells(_, _, _, _, _, _)
\* lines 263-266: one update_cell per key of updates that the header holds;
\* the failAt-th update_cell raises (0: none does)
WriteCells(sh, idx, header, updates, writes, failAt) ==
    IF updates = <<>> THEN [sheet |-> sh, writes |-> writes, raised |-> FALSE]
    ELSE LET key == updates[1][1]
             val == updates[1][2]
         IN  IF \E i \in 1..Len(header) : header[i] = key
             THEN IF failAt = writes + 1
                  THEN [sheet |-> sh, writes |-> writes, raised |-> TRUE]
                  ELSE WriteCells([sh EXCEPT ![idx][ColIndex(header, key)] = val],
                                  idx, header, Tail(updates), writes + 1, failAt)
             ELSE WriteCells(sh, idx, header, Tail(updates), writes, failAt)

\* update_submission_by_id(sub_id, updates); f.read: opening or reading the
\* sheet raises; f.cell: the update_cell call that raises
UpdateSubmissionById(sh, subId, updates, f) ==
    IF f.read THEN [sheet |-> sh, ret |-> FALSE, raised |-> TRUE, writes |-> 0]
    ELSE IF Len(sh) <= 1 THEN [sheet |-> sh, ret |-> FALSE, raised |-> FALSE, writes |-> 0]
    ELSE LET idx == FindRow(sh, subId)
         IN  IF idx = 0
             THEN [sheet |-> sh, ret |-> FALSE, raised |-> FALSE, writes |-> 0]
             ELSE LET w == WriteCells(sh, idx, sh[1], updates, 0, f.cell)
                  IN  [sheet |-> w.sheet, ret |-> ~w.raised, raised |-> w.raised,
                       writes |-> w.writes]

\* ws.get_all_records(): row 1 gives the keys, every later row one record, its
\* values numericised and a short row filled with empty cells
GetAllRecords(sh) ==
    IF Len(sh) <= 1 THEN [keys |-> IF sh = <<>> THEN <<>> ELSE sh[1], rows |-> <<>>]
    ELSE [keys |-> sh[1],
          rows |-> [i \in 1..(Len(sh) - 1) |->
                      [j \in 1..Len(sh[1]) |->
                          Numericise(IF j <= Len(sh[i + 1]) THEN sh[i + 1][j] ELSE <<>>)]]]

\* sheet_to_df() without lines 228-230 and 232-235: the records as they come
SheetToDfAsRead(sh) ==
    [columns |-> GetAllRecords(sh).keys, rows |-> GetAllRecords(sh).rows]

\* sheet_to_df(): the records under the seven expected columns, a column the
\* sheet lacks filled with empty cells
SheetToDf(sh) ==
    LET recs == GetAllRecords(sh)
        has(k) == \E j \in 1..Len(recs.keys) : recs.keys[j] = Header[k]
    IN  IF recs.rows = <<>> THEN [columns |-> Header, rows |-> <<>>]
        ELSE [columns |-> Header,
              rows |-> [i \in 1..Len(recs.rows) |->
                          [k \in 1..Len(Header) |->
                              IF has(k) THEN recs.rows[i][ColIndex(recs.keys, Header[k])]
                              ELSE <<>>]]]

-----------------------------------------------------------------------------
(* app.py lines 63-68: the local backup data/submissions_backup.csv, as the *)
(* list of its data rows.                                                   *)

\* the strings pandas.read_csv reads as missing values by default
NaValues ==
    {<<>>,
     <<"#","N","/","A">>,
     <<"#","N","/","A"," ","N","/","A">>,
     <<"#","N","A">>,
     <<"-","1",".","#","I","N","D">>,
     <<"-","1",".","#","Q","N","A","N">>,
     <<"-","N","a","N">>,
     <<"-","n","a","n">>,
     <<"1",".","#","I","N","D">>,
     <<"1",".","#","Q","N","A","N">>,
     <<"<","N","A",">">>,
     <<"N","/","A">>,
     <<"N","A">>,
     <<"N","U","L","L">>,
     <<"N","a","N">>,
     <<"N","o","n","e">>,
     <<"n","/","a">>,
     <<"n","a","n">>,
     <<"n","u","l","l">>}

\* pd.read_csv(local_file): a cell holding a missing-value string becomes NaN
ReadCsv(rows) ==
    [i \in 1..Len(rows) |->
        [j \in 1..Len(rows[i]) |-> IF rows[i][j] \in NaValues THEN NaN ELSE rows[i][j]]]

\* df.to_csv(local_file, index=False): NaN is written as the empty string
ToCsv(rows) ==
    [i \in 1..Len(rows) |->
        [j \in 1..Len(rows[i]) |-> IF rows[i][j] = NaN THEN <<>> ELSE rows[i][j]]]

\* lines 65-68: the file after the record is added
BackupWrite(exists, rows, row) ==
    ToCsv(IF exists THEN ReadCsv(rows) \o <<row>> ELSE <<row>>)

-----------------------------------------------------------------------------
(* Inputs.                                                                 *)

RevEmpty == <<>>

RevBlank ==
    <<" ","\n">>

RevNA ==
    <<"N","/","A">>

RevPadded ==
    <<" "," ","S","l","o","w"," ","s","e","r","v","i","c","e"," ","\n">>

RevColdRude ==
    <<"c","o","l","d"," ","f","o","o","d",","," ","r","u","d","e"," ","s","t","a","f","f">>

RevAll ==
    <<"W","a","i","t","i","n","g"," ","a","g","e","s",","," ","B","U","R","N","T"," ","t","o",
      "a","s","t",","," ","h","o","s","t","i","l","e">>

RevPlain ==
    <<"g","r","e","a","t">>

RevDelayTemp ==
    <<"L","o","n","g"," ","D","E","L","A","Y",","," ","w","r","o","n","g"," ","t","e","m",
      "p","e","r","a","t","u","r","e">>

RevWaitUnfriendly ==
    <<"W","e"," ","h","a","d"," ","t","o"," ","w","a","i","t",";"," ","u","n","f","r","i",
      "e","n","d","l","y"," ","h","o","s","t">>

RevUndercooked ==
    <<"U","n","d","e","r","c","o","o","k","e","d"," ","r","i","c","e">>

RevHostile ==
    <<"T","h","e"," ","m","a","n","a","g","e","r"," ","w","a","s"," ","H","o","s","t","i",
      "l","e">>

UnknownId ==
    <<"n","o","-","s","u","c","h","-","i","d">>

\* longer than the summary limit, with whitespace at both ends
RevLong ==
    <<" ">> \o [i \in 1..(SummaryMax + 10) |-> IF i % 7 = 0 THEN " " ELSE "z"] \o <<"\n">>

\* what a gateway call may give the handler: a text, or a failure
PipelineEnvs ==
    {[attempts |-> <<p, Raises, Raises>>, alt |-> Absent, alt2 |-> Absent] :
        p \in {Val(StrResp(TextA)), Val(ObjResp(Val(TextB), Absent, Absent, Absent, Absent)),
               Raises, Val(OtherResp)}}

GatewayResults == {GenaiGenerateText(e) : e \in PipelineEnvs}

GwOk == GenaiGenerateText([attempts |-> <<Val(StrResp(TextA)), Raises, Raises>>,
                            alt |-> Absent, alt2 |-> Absent])

GwFail == GenaiGenerateText([attempts |-> <<Raises, Raises, Raises>>,
                              alt |-> Absent, alt2 |-> Absent])

EnrichReviews ==
    {RevEmpty, RevBlank, RevNA, RevPadded, RevColdRude, RevAll, RevPlain, RevLong,
     RevDelayTemp, RevWaitUnfriendly, RevUndercooked, RevHostile}

\* the forms submitted to the pipeline with a store: <<rating, review, g>>
StoreInputs ==
    {<<MinRating, RevEmpty, <<GwOk, GwOk, GwOk>>>>,
     <<MaxRating, RevBlank, <<GwFail, GwFail, GwFail>>>>,
     <<MinRating, RevNA, <<GwFail, GwFail, GwFail>>>>,
     <<MaxRating, RevPadded, <<GwOk, GwFail, GwOk>>>>}

UpdSummary == <<"X">>

UpdActions == <<"Y">>

UpdateSets ==
    {<<>>, <<<<ColAiSummary, UpdSummary>>>>, <<<<ColAiActions, UpdActions>>>>,
     <<<<ColAiSummary, UpdSummary>>, <<ColAiActions, UpdActions>>>>}

\* the update_cell call that raises (0: none) is one the update set reaches
UpdateFailures(updates) ==
    {[read |-> FALSE, cell |-> k] : k \in 0..Len(updates)}

ReadFailure == [read |-> TRUE, cell |-> 0]

\* accepted submissions per behaviour
MaxSubmissions == 2

-----------------------------------------------------------------------------
(* app.py lines 18-77: the handler of one submitted form.                  *)

\* n identifiers were handed out before; g is the results of the three gateway
\* calls; f says which store calls fail
Submitted(n, rating, review, g, sh, exists, rows, f) ==
    IF IsRejected(review)
    THEN [outcome |-> "rejected", calls |-> 0, row |-> <<>>, sheet |-> sh,
          backupExists |-> exists, backup |-> rows, nextId |-> n, shown |-> FALSE]
    ELSE IF \E i \in 1..Len(g) : g[i].raised
    THEN [outcome |-> "crashed", calls |-> MinOf({i \in 1..Len(g) : g[i].raised}),
          row |-> <<>>, sheet |-> sh, backupExists |-> exists, backup |-> rows,
          nextId |-> n, shown |-> FALSE]
    ELSE LET row == MakeRow(n + 1, rating, review, Enrich(review, g[1], g[2], g[3]))
             ap == AppendSubmission(sh, row, f)
         IN  IF ap.raised
             THEN [outcome |-> "backed_up", calls |-> Len(g), row |-> row,
                   sheet |-> ap.sheet, backupExists |-> TRUE,
                   backup |-> BackupWrite(exists, rows, row), nextId |-> n + 1,
                   shown |-> FALSE]
             ELSE [outcome |-> "persisted", calls |-> Len(g), row |-> row,
                   sheet |-> ap.sheet, backupExists |-> exists, backup |-> rows,
                   nextId |-> n + 1, shown |-> TRUE]

-----------------------------------------------------------------------------
(* admin_app.py: loading the submissions and re-running the AI outputs.    *)

\* lines 77-92: the table the page works on; readFails: sheet_to_df raises
AdminLoad(sh, readFails, exists, rows) ==
    IF ~readFails THEN [source |-> "sheet", error |-> FALSE, df |-> SheetToDf(sh)]
    ELSE IF exists
    THEN [source |-> "backup", error |-> TRUE,
          df |-> [columns |-> Header, rows |-> ReadCsv(rows)]]
    ELSE [source |-> "none", error |-> TRUE, df |-> [columns |-> Header, rows |-> <<>>]]

\* df['id'].tolist()
DfIds(df) == [i \in 1..Len(df.rows) |-> df.rows[i][ColIndex(df.columns, ColId)]]

\* lines 127-131 without the tests of ok_s and ok_a
RerunUpdatesUnchecked(s, a) ==
    <<<<ColAiSummary, s.text>>, <<ColAiActions, a.text>>>>

\* lines 127-131 with ai_response added to the update set
RerunUpdatesWithResponse(s, a) ==
    <<<<ColAiResponse, s.text>>>>
    \o (IF s.ok THEN <<<<ColAiSummary, s.text>>>> ELSE <<>>)
    \o (IF a.ok THEN <<<<ColAiActions, a.text>>>> ELSE <<>>)

\* lines 127-131: the update set built from the two gateway results
RerunUpdates(s, a) ==
    (IF s.ok THEN <<<<ColAiSummary, s.text>>>> ELSE <<>>)
    \o (IF a.ok THEN <<<<ColAiActions, a.text>>>> ELSE <<>>)

\* lines 123-139: the button handler for the selected id
AdminRerun(sh, selId, s, a, f) ==
    LET updates == RerunUpdates(s, a)
    IN  IF updates = <<>>
        THEN [sheet |-> sh, msg |-> "nothing", raised |-> FALSE, writes |-> 0,
              updates |-> updates]
        ELSE LET u == UpdateSubmissionById(sh, selId, updates, f)
             IN  [sheet |-> u.sheet,
                  msg |-> IF u.raised THEN "raised"
                          ELSE IF u.ret THEN "updated" ELSE "failed",
                  raised |-> u.raised, writes |-> u.writes, updates |-> updates]

\* a gateway call answering with the text t
GwSays(t) == GenaiGenerateText([attempts |-> <<Val(StrResp(t)), Raises, Raises>>,
                                alt |-> Absent, alt2 |-> Absent])

\* what the two gateway calls of a re-run may give
RerunSummaryResults == {GwFail, GwSays(UpdSummary)}

RerunActionsResults == {GwFail, GwSays(UpdActions)}

-----------------------------------------------------------------------------
(* The enrichment on its own: one submission against an empty, reachable   *)
(* store, for every rating, review and outcome of the three gateway calls. *)

EnrInit ==
    /\ enr \in [phase : {"in"}, rating : Ratings, review : EnrichReviews,
                g : GatewayResults \X GatewayResults \X GatewayResults]
    /\ sheet = <<>> /\ backupExists = FALSE /\ backup = <<>> /\ nextId = 0
    /\ last = [op |-> "none"] /\ gw = [phase |-> "none"]
    /\ pipe = [phase |-> "none"] /\ race = [phase |-> "none"] /\ ev = [phase |-> "none"]

EnrSubmit ==
    /\ enr.phase = "in"
    /\ LET h == Submitted(0, enr.rating, enr.review, enr.g, <<>>, FALSE, <<>>, NoFailure)
       IN  enr' = [phase |-> "out", rating |-> enr.rating, review |-> enr.review,
                   g |-> enr.g, outcome |-> h.outcome, calls |-> h.calls, row |-> h.row]
    /\ UNCHANGED <<sheet, backupExists, backup, nextId, last, gw, pipe, race, ev>>

EnrNext == EnrSubmit

SpecEnrich == EnrInit /\ [][EnrNext]_vars

-----------------------------------------------------------------------------
(* The pipeline and the store: submissions and field updates in any order. *)

Init ==
    /\ sheet = <<>>
    /\ backupExists = FALSE
    /\ backup = <<>>
    /\ nextId = 0
    /\ last = [op |-> "none"]
    /\ enr = [phase |-> "none"]
    /\ gw = [phase |-> "none"]
    /\ pipe = [phase |-> "none"]
    /\ race = [phase |-> "none"]
    /\ ev = [phase |-> "none"]

Submit ==
    \E in \in StoreInputs :
      \E f \in IF IsRejected(in[2]) THEN {NoFailure} ELSE AppendFailures :
        /\ nextId < MaxSubmissions \/ IsRejected(in[2])
        /\ LET h == Submitted(nextId, in[1], in[2], in[3], sheet, backupExists, backup, f)
           IN  /\ sheet' = h.sheet
               /\ backupExists' = h.backupExists
               /\ backup' = h.backup
               /\ nextId' = h.nextId
               /\ last' = [op |-> "submit", rating |-> in[1], review |-> in[2],
                           outcome |-> h.outcome, calls |-> h.calls, row |-> h.row,
                           shown |-> h.shown]
        /\ UNCHANGED <<enr, gw, pipe, race, ev>>

\* the ids a caller may name: those handed out, and one never handed out
CallerIds == {NewId(k) : k \in 1..nextId} \cup {UnknownId}

UpdateFields ==
    \E subId \in CallerIds, updates \in UpdateSets :
      \E f \in IF FindRow(sheet, subId) = 0 THEN {[read |-> FALSE, cell |-> 0]}
               ELSE UpdateFailures(updates) \cup
                    (IF updates = <<>> THEN {ReadFailure} ELSE {}) :
        /\ LET u == UpdateSubmissionById(sheet, subId, updates, f)
           IN  /\ sheet' = u.sheet
               /\ last' = [op |-> "update", ret |-> u.ret, raised |-> u.raised,
                           writes |-> u.writes]
        /\ UNCHANGED <<backupExists, backup, nextId, enr, gw, pipe, race, ev>>

Next == Submit \/ UpdateFields

Spec == Init /\ [][Next]_vars

-----------------------------------------------------------------------------
(* The pipeline, the store and its readers: submissions, listings, the     *)
(* admin page and its re-runs in any order.                                *)

\* sheet_to_df() called by a reader; n tells one call from the next
ListAll ==
    \E fails \in BOOLEAN :
        /\ last' = [op |-> "list", raised |-> fails,
                    df |-> IF fails THEN [columns |-> <<>>, rows |-> <<>>]
                           ELSE SheetToDf(sheet),
                    n |-> IF last.op = "list" THEN 1 - last.n ELSE 0]
        /\ UNCHANGED <<sheet, backupExists, backup, nextId, enr, gw, pipe, race, ev>>

\* the admin page loads its table
AdminView ==
    \E readFails \in BOOLEAN :
        /\ LET ld == AdminLoad(sheet, readFails, backupExists, backup)
           IN  last' = [op |-> "load", source |-> ld.source, error |-> ld.error,
                        readFails |-> readFails, ids |-> DfIds(ld.df)]
        /\ UNCHANGED <<sheet, backupExists, backup, nextId, enr, gw, pipe, race, ev>>

\* the admin page loads its table, an id of it is selected and re-run
Rerun ==
    \E readFails \in BOOLEAN :
      LET ld == AdminLoad(sheet, readFails, backupExists, backup)
          ids == DfIds(ld.df)
      IN  \E i \in 1..Len(ids), s \in RerunSummaryResults, a \in RerunActionsResults :
            \E f \in IF FindRow(sheet, ids[i]) = 0 THEN {[read |-> FALSE, cell |-> 0]}
                     ELSE UpdateFailures(RerunUpdates(s, a)) :
              /\ Truthy(ids[i])
              /\ LET r == AdminRerun(sheet, ids[i], s, a, f)
                 IN  /\ sheet' = r.sheet
                     /\ last' = [op |-> "rerun", source |-> ld.source, msg |-> r.msg,
                                 writes |-> r.writes]
              /\ UNCHANGED <<backupExists, backup, nextId, enr, gw, pipe, race, ev>>

AdminNext == Submit \/ ListAll \/ AdminView \/ Rerun

SpecAdmin == Init /\ [][AdminNext]_vars

-----------------------------------------------------------------------------
(* app.py step by step: one submission after the other, each one moving    *)
(* through the handler's positions.                                        *)

Terminal == {"Rejected", "Persisted", "LocallyBackedUp"}

\* lines 58-61 and 72-77 with the exception of append_submission swallowed
AfterAppendSwallowed(raised) == [state |-> "Persisted", shown |-> TRUE]

\* lines 58-61 and 72-77: where the handler is after append_submission, and
\* whether the three texts are written to the page
AfterAppend(raised) ==
    IF raised THEN [state |-> "PersistFailed", shown |-> FALSE]
    ELSE [state |-> "Persisted", shown |-> TRUE]

PipeInit ==
    /\ sheet = <<>> /\ backupExists = FALSE /\ backup = <<>> /\ nextId = 0
    /\ last = [op |-> "none"] /\ enr = [phase |-> "none"] /\ gw = [phase |-> "none"]
    /\ pipe = [state |-> "Idle"]
    /\ race = [phase |-> "none"] /\ ev = [phase |-> "none"]

\* line 17: the form is submitted
PipeReceive ==
    /\ pipe.state \in Terminal \cup {"Idle"}
    /\ \E in \in StoreInputs :
         /\ nextId < MaxSubmissions \/ IsRejected(in[2])
         /\ pipe' = [state |-> "Received", rating |-> in[1], review |-> in[2],
                     g |-> in[3], row |-> <<>>, append |-> "not called",
                     shown |-> FALSE]
    /\ UNCHANGED <<sheet, backupExists, backup, nextId, last, enr, gw, race, ev>>

\* lines 18-20
PipeValidate ==
    /\ pipe.state = "Received"
    /\ pipe' = [pipe EXCEPT !.state = IF IsRejected(pipe.review) THEN "Rejected"
                                      ELSE "Validated"]
    /\ UNCHANGED <<sheet, backupExists, backup, nextId, last, enr, gw, race, ev>>

\* lines 21-56: the three gateway calls, the fallbacks and the row
PipeEnrich ==
    /\ pipe.state = "Validated"
    /\ \A i \in 1..Len(pipe.g) : ~pipe.g[i].raised
    /\ pipe' = [pipe EXCEPT !.state = "Enriched",
                            !.row = MakeRow(nextId + 1, pipe.rating, pipe.review,
                                            Enrich(pipe.review, pipe.g[1], pipe.g[2],
                                                   pipe.g[3]))]
    /\ nextId' = nextId + 1
    /\ UNCHANGED <<sheet, backupExists, backup, last, enr, gw, race, ev>>

\* lines 58-61 and 72-77: append_submission, then the page or the except path
PipeAppend ==
    /\ pipe.state = "Enriched"
    /\ \E f \in AppendFailures :
         LET ap == AppendSubmission(sheet, pipe.row, f)
             nx == AfterAppend(ap.raised)
         IN  /\ sheet' = ap.sheet
             /\ pipe' = [pipe EXCEPT !.state = nx.state, !.shown = nx.shown,
                                     !.append = IF ap.raised THEN "raised" ELSE "returned"]
    /\ UNCHANGED <<backupExists, backup, nextId, last, enr, gw, race, ev>>

\* lines 62-70: the local backup, then st.stop()
PipeBackup ==
    /\ pipe.state = "PersistFailed"
    /\ backup' = BackupWrite(backupExists, backup, pipe.row)
    /\ backupExists' = TRUE
    /\ pipe' = [pipe EXCEPT !.state = "LocallyBackedUp"]
    /\ UNCHANGED <<sheet, nextId, last, enr, gw, race, ev>>

\* the steps of the handler once the form is submitted
PipeStep == PipeValidate \/ PipeEnrich \/ PipeAppend \/ PipeBackup

PipeNext == PipeReceive \/ PipeValidate \/ PipeEnrich \/ PipeAppend \/ PipeBackup

\* the script runs from top to bottom in one thread: a handler that can take
\* its next step takes it
SpecPipeline == PipeInit /\ [][PipeNext]_vars /\ WF_vars(PipeStep)

-----------------------------------------------------------------------------
(* utils/sheets_helper.py lines 255-268 step by step: two callers of       *)
(* update_submission_by_id on the same id, each sheet call a step.         *)

\* ws.update_cell with the row counted from the first record
UpdateCellRowAbove(sh, row, col, val) == [sh EXCEPT ![row - 1][col] = val]

\* line 266: ws.update_cell(idx, col_index, val)
UpdateCell(sh, row, col, val) == [sh EXCEPT ![row][col] = val]

Callers == {1, 2}

\* the texts caller p writes
RaceSummary(p) == <<"S">> \o Digits(p)

RaceActions(p) == <<"A">> \o Digits(p)

\* the update sets of caller p, in the order items() gives the keys
RaceUpdateSets(p) ==
    {<<<<ColAiSummary, RaceSummary(p)>>>>,
     <<<<ColAiActions, RaceActions(p)>>>>,
     <<<<ColAiSummary, RaceSummary(p)>>, <<ColAiActions, RaceActions(p)>>>>,
     <<<<ColAiActions, RaceActions(p)>>, <<ColAiSummary, RaceSummary(p)>>>>}

\* the rows of two submissions
RaceRow1 == MakeRow(1, MinRating, RevNA, Enrich(RevNA, GwFail, GwFail, GwFail))

RaceRow2 == MakeRow(2, MaxRating, RevPadded, Enrich(RevPadded, GwOk, GwFail, GwOk))

\* the sheet after the first submission was persisted
RaceSheet1 == AppendSubmission(<<>>, RaceRow1, NoFailure).sheet

\* the sheet after two submissions were persisted
RaceSheet == AppendSubmission(RaceSheet1, RaceRow2, NoFailure).sheet

UpdatedCols == {ColIndex(Header, ColAiSummary), ColIndex(Header, ColAiActions)}

RaceInit ==
    /\ sheet = RaceSheet /\ backupExists = FALSE /\ backup = <<>> /\ nextId = 2
    /\ last = [op |-> "none"] /\ enr = [phase |-> "none"] /\ gw = [phase |-> "none"]
    /\ pipe = [phase |-> "none"] /\ ev = [phase |-> "none"]
    /\ \E subId \in {NewId(1), NewId(2)} :
         \E u1 \in RaceUpdateSets(1), u2 \in RaceUpdateSets(2) :
           race = [phase |-> "run", id |-> subId, orig |-> RaceSheet,
                   c |-> [p \in Callers |->
                            [pc |-> "records", updates |-> IF p = 1 THEN u1 ELSE u2,
                             idx |-> 0, header |-> <<>>, todo |-> <<>>, ret |-> "none"]],
                   lastWriter |-> [k \in UpdatedCols |-> 0]]

\* lines 256-259 and the scan of lines 261-262 over the records read
RaceRecords(p) ==
    /\ race.phase = "run" /\ race.c[p].pc = "records"
    /\ LET recs == GetAllRecords(sheet).rows
           idx == FindRow(sheet, race.id)
       IN  race' = IF recs = <<>> \/ idx = 0
                   THEN [race EXCEPT !.c[p].pc = "done", !.c[p].ret = "False"]
                   ELSE [race EXCEPT !.c[p].pc = "header", !.c[p].idx = idx]
    /\ UNCHANGED <<sheet, backupExists, backup, nextId, last, enr, gw, pipe, ev>>

\* line 260: header = ws.row_values(1); the keys of lines 263-264 the header holds
RaceHeader(p) ==
    /\ race.phase = "run" /\ race.c[p].pc = "header"
    /\ LET header == RowValues1(sheet)
       IN  race' = [race EXCEPT !.c[p].pc = "write", !.c[p].header = header,
                                !.c[p].todo = SelectSeq(race.c[p].updates,
                                    LAMBDA u : \E i \in 1..Len(header) : header[i] = u[1])]
    /\ UNCHANGED <<sheet, backupExists, backup, nextId, last, enr, gw, pipe, ev>>

\* lines 265-266: one update_cell
RaceWrite(p) ==
    /\ race.phase = "run" /\ race.c[p].pc = "write" /\ race.c[p].todo # <<>>
    /\ LET u == race.c[p].todo[1]
           col == ColIndex(race.c[p].header, u[1])
       IN  /\ sheet' = UpdateCell(sheet, race.c[p].idx, col, u[2])
           /\ race' = [race EXCEPT !.c[p].todo = Tail(@),
                                   !.lastWriter = [k \in UpdatedCols |->
                                                     IF k = col THEN p ELSE @[k]]]
    /\ UNCHANGED <<backupExists, backup, nextId, last, enr, gw, pipe, ev>>

\* line 267: return True
RaceReturn(p) ==
    /\ race.phase = "run" /\ race.c[p].pc = "write" /\ race.c[p].todo = <<>>
    /\ race' = [race EXCEPT !.c[p].pc = "done", !.c[p].ret = "True"]
    /\ UNCHANGED <<sheet, backupExists, backup, nextId, last, enr, gw, pipe, ev>>

RaceNext ==
    \E p \in Callers : RaceRecords(p) \/ RaceHeader(p) \/ RaceWrite(p) \/ RaceReturn(p)

SpecRace == RaceInit /\ [][RaceNext]_vars

-----------------------------------------------------------------------------
(* admin_app.py lines 76-139 on a sheet with two records: re-runs of any   *)
(* listed id, for every outcome of the two gateway calls and of the sheet. *)

\* the results of genai_generate_text with ok = False
GwFailures == {g \in GatewayResults : ~g.ok}

RerunSummaryOutcomes == GwFailures \cup {GwSays(UpdSummary)}

RerunActionsOutcomes == GwFailures \cup {GwSays(UpdActions)}

RerunInit ==
    /\ sheet = RaceSheet /\ backupExists = FALSE /\ backup = <<>> /\ nextId = 2
    /\ last = [op |-> "none"] /\ enr = [phase |-> "none"] /\ gw = [phase |-> "none"]
    /\ pipe = [phase |-> "none"] /\ race = [phase |-> "none"] /\ ev = [phase |-> "none"]

\* the page loads the sheet, an id is selected and the button is pressed
RerunPressed ==
    LET ids == DfIds(AdminLoad(sheet, FALSE, backupExists, backup).df)
    IN  \E i \in 1..Len(ids), s \in RerunSummaryOutcomes, a \in RerunActionsOutcomes :
          \E f \in UpdateFailures(RerunUpdates(s, a)) \cup {ReadFailure} :
            /\ Truthy(ids[i])
            /\ LET r == AdminRerun(sheet, ids[i], s, a, f)
               IN  /\ sheet' = r.sheet
                   /\ last' = [op |-> "rerun", id |-> ids[i], s |-> s, a |-> a,
                               msg |-> r.msg, writes |-> r.writes]
            /\ UNCHANGED <<backupExists, backup, nextId, enr, gw, pipe, race, ev>>

RerunNext == RerunPressed

SpecRerun == RerunInit /\ [][RerunNext]_vars

-----------------------------------------------------------------------------
(* utils/sheets_helper.py lines 255-268 on the sheets submissions leave:    *)
(* update sets with keys outside the header, and records sharing an id.    *)

ColSentiment == <<"s","e","n","t","i","m","e","n","t">>

ColNotes == <<"n","o","t","e","s">>

\* update sets whose keys are in the header, outside it, or both
WideUpdateSets ==
    {<<>>,
     <<<<ColSentiment, UpdSummary>>>>,
     <<<<ColSentiment, UpdSummary>>, <<ColNotes, UpdActions>>>>,
     <<<<ColSentiment, UpdSummary>>, <<ColAiActions, UpdActions>>>>,
     <<<<ColAiSummary, UpdSummary>>, <<ColNotes, UpdActions>>>>,
     <<<<ColAiSummary, UpdSummary>>, <<ColAiActions, UpdActions>>>>}

\* append_submission with row_values(1), ws.update and append_row raising,
\* insert_row not
DuplicatingFailure ==
    [open |-> FALSE, rowValues |-> TRUE, update |-> TRUE, insert |-> FALSE,
     append |-> TRUE]

UpdInit ==
    /\ sheet = <<>> /\ backupExists = FALSE /\ backup = <<>> /\ nextId = 0
    /\ last = [op |-> "none"] /\ enr = [phase |-> "none"] /\ gw = [phase |-> "none"]
    /\ pipe = [phase |-> "none"] /\ race = [phase |-> "none"] /\ ev = [phase |-> "none"]

\* app.py lines 18-77: the first submission is persisted; each later one meets
\* the failing sheet calls above, which puts one more header row on top and
\* sends the row to the backup, so that the records under row 1 come to share
\* the id "id"
UpdSubmit ==
    /\ nextId <= MaxSubmissions
    /\ LET h == Submitted(nextId, MinRating, RevNA, <<GwFail, GwFail, GwFail>>, sheet,
                          backupExists, backup,
                          IF nextId = 0 THEN NoFailure ELSE DuplicatingFailure)
       IN  /\ sheet' = h.sheet
           /\ backupExists' = h.backupExists
           /\ backup' = h.backup
           /\ nextId' = h.nextId
           /\ last' = [op |-> "submit", outcome |-> h.outcome]
    /\ UNCHANGED <<enr, gw, pipe, race, ev>>

\* the ids a caller may name: those of the records read, and one of no record
UpdCallerIds == {sheet[i][1] : i \in 2..Len(sheet)} \cup {UnknownId}

\* one call of update_submission_by_id
UpdCall ==
    \E subId \in UpdCallerIds, updates \in WideUpdateSets :
      \E f \in UpdateFailures(updates) \cup {ReadFailure} :
        /\ LET u == UpdateSubmissionById(sheet, subId, updates, f)
           IN  /\ sheet' = u.sheet
               /\ last' = [op |-> "update", id |-> subId, updates |-> updates,
                           ret |-> u.ret, raised |-> u.raised, writes |-> u.writes]
        /\ UNCHANGED <<backupExists, backup, nextId, enr, gw, pipe, race, ev>>

UpdNext == UpdSubmit \/ UpdCall

SpecUpdate == UpdInit /\ [][UpdNext]_vars

-----------------------------------------------------------------------------
(* Properties of the gateway (SpecGateway).                                *)

GwDone == gw.phase = "done"

AllAttemptsRaise == \A k \in 1..StopAfterAttempt : gw.env.attempts[k] = Raises

\* the first attempt raises and attempt k is the first to return a text
FirstSuccessAt(k) ==
    /\ k > 1
    /\ \A j \in 1..(k - 1) : gw.env.attempts[j] = Raises
    /\ gw.env.attempts[k] = Val(StrResp(TextB))

\* C5: when the remote call raises on every attempt, genai_generate_text makes
\* StopAfterAttempt (3) attempts and then returns ok=false; when an earlier
\* attempt raises and a later one succeeds, it returns ok=true with that
\* attempt's text.
C5_RetriesUpToThreeAttempts ==
    GwDone =>
        /\ gw.res.attempts <= StopAfterAttempt
        /\ AllAttemptsRaise =>
              (gw.res.attempts = StopAfterAttempt /\ ~gw.res.ok)
        /\ \A k \in 2..StopAfterAttempt :
              FirstSuccessAt(k) => (gw.res.ok /\ gw.res.text = TextB)

\* C6: genai_generate_text never raises; it returns (ok, text), and when ok is
\* false the text begins with "ERROR:".
C6_NeverRaisesErrorMarker ==
    GwDone =>
        /\ ~gw.res.raised
        /\ gw.res.ok \in BOOLEAN
        /\ gw.res.text # NoneVal
        /\ ~gw.res.ok => StartsWith(gw.res.text, ErrorMarker)

\* a call whose remote call raised ended with ok=false and the error text
C6_Witness ==
    /\ GwDone /\ ~gw.res.ok
    /\ gw.env.attempts[1] = Raises
    /\ StartsWith(gw.res.text, ErrorMarker)

\* The shapes the gateway knows, in the order they are tried, as a list of
\* matchers: each gives the text of its shape or <<>> (no match).
ShapeMatchers(r) ==
    << IF r.kind = "str" THEN <<r.val>> ELSE <<>>,
       IF r.kind = "obj" /\ r.text.st = "val" THEN <<r.text.val>> ELSE <<>>,
       IF r.kind = "obj" /\ r.cands.st \in {"parts", "text"} THEN <<r.cands.val>> ELSE <<>>,
       IF r.kind = "dict" /\ r.cands.st = "parts" THEN <<r.cands.val>> ELSE <<>>,
       IF r.kind = "dict" /\ r.text.st = "val" THEN <<r.text.val>> ELSE <<>>,
       IF r.kind = "dict" /\ r.output.st = "val" THEN <<PyStr(r.output.val)>> ELSE <<>> >>

KnownShape(r) == \E i \in 1..6 : ShapeMatchers(r)[i] # <<>>

\* the text of the first matcher that matches
FirstMatchText(r) ==
    ShapeMatchers(r)[MinOf({i \in 1..6 : ShapeMatchers(r)[i] # <<>>})][1]

\* a value and what its conversions (to_dict, to_json, result) give
Unfolded(r) ==
    {r} \cup (IF r.kind = "obj"
              THEN {s.val : s \in {x \in {r.todict, r.tojson, r.result} : x.st = "val"}}
              ELSE {})

\* the values the call obtained from the remote service
Obtained ==
    UNION {Unfolded(s.val) :
             s \in {x \in {gw.env.attempts[gw.res.attempts], gw.env.alt, gw.env.alt2} :
                      x.st = "val"}}

-----------------------------------------------------------------------------
(* Properties of the enrichment (SpecEnrich).                              *)

\* empty or whitespace only
IsBlank(review) == \A i \in 1..Len(review) : IsSpace(review[i])

EnrOut == enr.phase = "out"

AllFailed(g) == \A i \in 1..Len(g) : ~g[i].ok

\* C3: for every rating in [1,5], every non-blank review and every outcome of
\* the three gateway calls, the submission is produced and its ai_response,
\* ai_summary and ai_actions are all non-empty.
C3_AiFieldsNonEmpty ==
    (EnrOut /\ ~IsBlank(enr.review)) =>
        /\ enr.outcome = "persisted"
        /\ enr.rating \in MinRating..MaxRating
        /\ \A j \in 5..7 : Truthy(enr.row[j])

\* every gateway call failed on a review that no keyword rule matches
C3_Witness ==
    /\ EnrOut /\ enr.review = RevPlain /\ AllFailed(enr.g)
    /\ enr.outcome = "persisted"
    /\ enr.row[7] = BulletGeneric

\* the outputs the keyword rules can give: the bullets of a non-empty set of
\* rules in declaration order, or the generic bullet
RuleOutputs ==
    {JoinLines(b) : b \in {<<BulletSpeed>>, <<BulletFood>>, <<BulletStaff>>,
                           <<BulletSpeed, BulletFood>>, <<BulletSpeed, BulletStaff>>,
                           <<BulletFood, BulletStaff>>,
                           <<BulletSpeed, BulletFood, BulletStaff>>, <<BulletGeneric>>}}

\* C4 as claimed: when every gateway call fails, ai_response is the fixed
\* thank-you message, ai_summary is the first 200 characters of the review as
\* submitted and stored, and ai_actions is a non-empty output of the keyword
\* rules.
C4_FallbacksAsClaimed ==
    (EnrOut /\ ~IsBlank(enr.review) /\ AllFailed(enr.g)) =>
        /\ enr.row[4] = enr.review
        /\ enr.row[5] = FallbackResponse
        /\ enr.row[6] = SubSeq(enr.row[4], 1, IF Len(enr.row[4]) < 200 THEN Len(enr.row[4]) ELSE 200)
        /\ enr.row[7] # <<>> /\ enr.row[7] \in RuleOutputs

\* the review from its first to its last non-whitespace character
Trimmed(review) ==
    LET lead == Cardinality({i \in 1..Len(review) : \A k \in 1..i : IsSpace(review[k])})
        trail == Cardinality({i \in 1..Len(review) : \A k \in i..Len(review) : IsSpace(review[k])})
    IN  SubSeq(review, lead + 1, Len(review) - trail)

\* C4 amended: when every gateway call fails, ai_response is the fixed
\* thank-you message, ai_summary is the first 200 characters of the review
\* with its leading and trailing whitespace removed (the review field keeps
\* the text as submitted), and ai_actions is a non-empty output of the keyword
\* rules.
C4_FallbacksStripped ==
    (EnrOut /\ ~IsBlank(enr.review) /\ AllFailed(enr.g)) =>
        /\ enr.row[4] = enr.review
        /\ enr.row[5] = FallbackResponse
        /\ LET t == Trimmed(enr.review)
           IN  enr.row[6] = SubSeq(t, 1, IF Len(t) < 200 THEN Len(t) ELSE 200)
        /\ enr.row[7] # <<>> /\ enr.row[7] \in RuleOutputs

\* a review longer than the limit with whitespace in front: the summary has
\* 200 characters and is not the head of the review as submitted
C4_Witness ==
    /\ EnrOut /\ enr.review = RevLong /\ AllFailed(enr.g)
    /\ Len(enr.row[6]) = 200
    /\ enr.row[6] # SubSeq(enr.review, 1, 200)
    /\ enr.row[5] = FallbackResponse

\* C8: one accepted submission issues exactly three gateway calls, and each
\* field is the text of its own call when that call succeeded and its own
\* fallback when it failed, whatever the other two calls did.
C8_ThreeIndependentCalls ==
    (EnrOut /\ ~IsBlank(enr.review)) =>
        /\ enr.calls = 3
        /\ enr.row[5] = IF enr.g[1].ok THEN enr.g[1].text ELSE FallbackResponse
        /\ enr.row[6] = IF enr.g[2].ok THEN enr.g[2].text ELSE SummaryFallback(enr.review)
        /\ enr.row[7] = IF enr.g[3].ok THEN enr.g[3].text ELSE ActionsFallback(enr.review)
        /\ \A x \in GatewayResults, y \in GatewayResults :
              /\ Enrich(enr.review, enr.g[1], x, y).ai_response = enr.row[5]
              /\ Enrich(enr.review, x, enr.g[2], y).ai_summary = enr.row[6]
              /\ Enrich(enr.review, x, y, enr.g[3]).ai_actions = enr.row[7]

\* the summary call failed and the other two succeeded with different texts
C8_Witness ==
    /\ EnrOut /\ enr.review = RevColdRude /\ enr.calls = 3
    /\ enr.g[1].ok /\ ~enr.g[2].ok /\ enr.g[3].ok
    /\ enr.row[5] = TextA /\ enr.row[7] = TextB
    /\ enr.row[6] = RevColdRude

-----------------------------------------------------------------------------
(* Properties of the pipeline and the store (Spec).                        *)

\* the rows of the sheet that are no header
Records(sh) == SelectSeq(sh, LAMBDA row : row # Header)

\* C1: a submission whose review is empty or whitespace-only is rejected with
\* no gateway call; no id is assigned and the store and the backup are left
\* as they were.
C1_BlankReviewRejected ==
    [][(last'.op = "submit" /\ IsBlank(last'.review)) =>
          /\ last'.outcome = "rejected"
          /\ last'.calls = 0
          /\ nextId' = nextId
          /\ sheet' = sheet
          /\ backupExists' = backupExists /\ backup' = backup]_vars

\* a whitespace-only review was rejected while the store and the backup both
\* held a record
C1_Witness ==
    /\ last.op = "submit" /\ last.review = RevBlank /\ last.outcome = "rejected"
    /\ last.calls = 0
    /\ Len(Records(sheet)) >= 1 /\ backupExists /\ Len(backup) >= 1

\* C2: every accepted submission is recorded exactly once: appended to the
\* store if append_submission succeeded, otherwise added to the local backup
\* with the same seven fields, the earlier backup records being kept and the
\* backup being created if absent.
C2_NeverLoseSubmission ==
    [][(last'.op = "submit" /\ ~IsBlank(last'.review)) =>
          /\ last'.outcome \in {"persisted", "backed_up"}
          /\ Len(last'.row) = 7 /\ last'.row[4] = last'.review
          /\ last'.outcome = "persisted" =>
                /\ Records(sheet') = Append(Records(sheet), last'.row)
                /\ backupExists' = backupExists /\ backup' = backup
          /\ last'.outcome = "backed_up" =>
                /\ backupExists'
                /\ backup' = Append(backup, last'.row)
                /\ Records(sheet') = Records(sheet)]_vars

\* the rows that hold the id
HoldsId(sh, subId) == {i \in 2..Len(sh) : sh[i][1] = subId}

\* the store failures an update of one key may meet
SingleKeyFailures == {[read |-> FALSE, cell |-> k] : k \in 0..1} \cup {ReadFailure}

\* the store failures an update may meet
AnyUpdateFailure == UNION {UpdateFailures(u) : u \in UpdateSets} \cup {ReadFailure}

\* C9: an update of only ai_summary (or only ai_actions) on a store holding a
\* row with the id changes only that cell of the row with the id: the header,
\* the other rows, the other cells and the order stay as they were; when the
\* store answers, the call returns true and the cell holds the new value.
C9_UpdateTouchesOnlyItsCell ==
    \A subId \in CallerIds, j \in {6, 7}, x \in {UpdSummary, UpdActions},
       f \in SingleKeyFailures :
        HoldsId(sheet, subId) # {} =>
            LET u == UpdateSubmissionById(sheet, subId, <<<<Header[j], x>>>>, f)
            IN  /\ Len(u.sheet) = Len(sheet)
                /\ \A i \in 1..Len(sheet) :
                      /\ Len(u.sheet[i]) = Len(sheet[i])
                      /\ \A c \in 1..Len(sheet[i]) :
                            (i \in HoldsId(sheet, subId) /\ c = j) \/ u.sheet[i][c] = sheet[i][c]
                /\ (~f.read /\ f.cell # 1) =>
                      /\ u.ret /\ ~u.raised /\ u.writes = 1
                      /\ \A i \in HoldsId(sheet, subId) : u.sheet[i][j] = x

\* an update wrote ai_summary of one record of a store that holds two
C9_Witness ==
    /\ last.op = "update" /\ last.ret /\ last.writes = 1
    /\ Len(Records(sheet)) = 2
    /\ \E i \in 2..Len(sheet) : sheet[i][6] = UpdSummary /\ sheet[i][7] # UpdActions
    /\ \E i \in 2..Len(sheet) : sheet[i][1] # ColId /\ sheet[i][6] # UpdSummary

\* C10: an update whose id matches no row, on an empty store too, writes no
\* cell and leaves the store as it was; when the store answers, it returns
\* false.
C10_UnknownIdNoMutation ==
    \A subId \in CallerIds, updates \in UpdateSets, f \in AnyUpdateFailure :
        HoldsId(sheet, subId) = {} =>
            LET u == UpdateSubmissionById(sheet, subId, updates, f)
            IN  /\ u.sheet = sheet
                /\ u.writes = 0
                /\ ~f.read => (~u.raised /\ u.ret = FALSE)

\* an update with an unknown id returned false on a store that holds records
C10_Witness ==
    /\ last.op = "update" /\ ~last.ret /\ ~last.raised /\ last.writes = 0
    /\ Len(Records(sheet)) >= 2

-----------------------------------------------------------------------------
(* C11: append keeps the header in row 1 and the records in insertion order *)

\* the records list_all returns, a record repeating the header left out
ListedRecords(sh) == SelectSeq(SheetToDf(sh).rows, LAMBDA r : r # Header)

-----------------------------------------------------------------------------
(* C12: list_all is a pure read                                            *)

\* C12: a list_all step leaves the store as it was; when it returns, its
\* table has exactly the seven expected columns, every row seven cells, no row
\* at all for a store without records, and the same content as the list_all
\* step right before it, if that one returned too.
C12_ListAllIsPureRead ==
    [][last'.op = "list" =>
         /\ sheet' = sheet /\ backup' = backup /\ backupExists' = backupExists
         /\ (~last'.raised =>
                /\ last'.df.columns = Header
                /\ Len(last'.df.rows) = MaxOf({0, Len(sheet) - 1})
                /\ \A i \in 1..Len(last'.df.rows) : Len(last'.df.rows[i]) = Len(Header)
                /\ ((last.op = "list" /\ ~last.raised) => last'.df = last.df))]_vars

\* list_all returned twice in a row on a store holding records
C12_Witness ==
    /\ last.op = "list" /\ last.n = 1 /\ ~last.raised
    /\ Len(last.df.rows) >= 2
    /\ last.df = SheetToDf(sheet)

-----------------------------------------------------------------------------
(* notebooks/task1_rating_prompts.py: the evaluation of one prompt         *)
(* template over the sample, lines 56-82 and 86-93.                        *)

\* s.find(c) and s.rfind(c); 0 stands for Python's -1
Find(s, c) ==
    IF \E i \in 1..Len(s) : s[i] = c THEN MinOf({i \in 1..Len(s) : s[i] = c}) ELSE 0

RFind(s, c) ==
    IF \E i \in 1..Len(s) : s[i] = c THEN MaxOf({i \in 1..Len(s) : s[i] = c}) ELSE 0

DigitSet == {DigitChars[d] : d \in 1..Len(DigitChars)}

DigitVal(c) == CHOOSE d \in 0..9 : DigitChars[d + 1] = c

RECURSIVE NatOf(_)
\* the number a run of digits denotes
NatOf(ds) ==
    IF ds = <<>> THEN 0
    ELSE NatOf(SubSeq(ds, 1, Len(ds) - 1)) * 10 + DigitVal(ds[Len(ds)])

\* json.loads on the texts of the sample: objects whose values are numbers
\* without exponent, strings without escapes, true, false and null.  A parse
\* gives [ok, pos, ...], pos the index after what was read.
JsonWs == {" ", "\t", "\n", "\r"}

RECURSIVE SkipWs(_, _)
SkipWs(s, i) == IF i <= Len(s) /\ s[i] \in JsonWs THEN SkipWs(s, i + 1) ELSE i

RECURSIVE DigitsEnd(_, _)
DigitsEnd(s, i) == IF i <= Len(s) /\ s[i] \in DigitSet THEN DigitsEnd(s, i + 1) ELSE i

ParseFail == [ok |-> FALSE]

JsonInt(n) == [t |-> "int", v |-> n]

JsonBool(b) == [t |-> "bool", v |-> IF b THEN 1 ELSE 0]

JsonNull == [t |-> "null", v |-> 0]

ParseNumber(s, i) ==
    LET neg == s[i] = "-"
        a == IF neg THEN i + 1 ELSE i
        b == DigitsEnd(s, a)
        whole == NatOf(SubSeq(s, a, b - 1))
    IN  IF b = a THEN ParseFail
        ELSE IF b <= Len(s) /\ s[b] = "." /\ DigitsEnd(s, b + 1) > b + 1
        THEN [ok |-> TRUE, pos |-> DigitsEnd(s, b + 1),
              val |-> [t |-> "float", neg |-> neg, whole |-> whole,
                       frac |-> SubSeq(s, b + 1, DigitsEnd(s, b + 1) - 1)]]
        ELSE IF b - a > 1 /\ s[a] = "0"
        THEN [ok |-> TRUE, pos |-> a + 1, val |-> JsonInt(0)]
        ELSE [ok |-> TRUE, pos |-> b, val |-> JsonInt(IF neg THEN 0 - whole ELSE whole)]

ParseString(s, i) ==
    LET close == {j \in (i + 1)..Len(s) : s[j] = "\""}
    IN  IF close = {} THEN ParseFail
        ELSE LET j == MinOf(close)
             IN  IF \E k \in (i + 1)..(j - 1) : s[k] \in {"\n", "\r", "\t", "\\"}
                 THEN ParseFail
                 ELSE [ok |-> TRUE, pos |-> j + 1,
                       val |-> [t |-> "str", v |-> SubSeq(s, i + 1, j - 1)]]

Word_true == <<"t","r","u","e">>

Word_false == <<"f","a","l","s","e">>

Word_null == <<"n","u","l","l">>

IsAt(s, i, w) == i + Len(w) - 1 <= Len(s) /\ SubSeq(s, i, i + Len(w) - 1) = w

ParseValue(s, i) ==
    IF i > Len(s) THEN ParseFail
    ELSE IF s[i] = "\"" THEN ParseString(s, i)
    ELSE IF s[i] \in DigitSet \cup {"-"} THEN ParseNumber(s, i)
    ELSE IF IsAt(s, i, Word_true)
    THEN [ok |-> TRUE, pos |-> i + Len(Word_true), val |-> JsonBool(TRUE)]
    ELSE IF IsAt(s, i, Word_false)
    THEN [ok |-> TRUE, pos |-> i + Len(Word_false), val |-> JsonBool(FALSE)]
    ELSE IF IsAt(s, i, Word_null)
    THEN [ok |-> TRUE, pos |-> i + Len(Word_null), val |-> JsonNull]
    ELSE ParseFail

RECURSIVE ParseMembers(_, _, _)
\* the members of an object from position i on, up to its closing brace
ParseMembers(s, i, acc) ==
    LET i1 == SkipWs(s, i)
    IN  IF i1 > Len(s) \/ s[i1] # "\"" THEN ParseFail
        ELSE LET k == ParseString(s, i1)
             IN  IF ~k.ok THEN ParseFail
                 ELSE LET i2 == SkipWs(s, k.pos)
                      IN  IF i2 > Len(s) \/ s[i2] # ":" THEN ParseFail
                          ELSE LET v == ParseValue(s, SkipWs(s, i2 + 1))
                               IN  IF ~v.ok THEN ParseFail
                                   ELSE LET i3 == SkipWs(s, v.pos)
                                            acc2 == Append(acc, <<k.val.v, v.val>>)
                                        IN  IF i3 > Len(s) THEN ParseFail
                                            ELSE IF s[i3] = "}"
                                            THEN [ok |-> TRUE, pos |-> i3 + 1,
                                                  members |-> acc2]
                                            ELSE IF s[i3] = ","
                                            THEN ParseMembers(s, i3 + 1, acc2)
                                            ELSE ParseFail

\* json.loads(s) for a text that starts an object: its members in order, or
\* no result when json.loads raises
JsonLoads(s) ==
    LET i0 == SkipWs(s, 1)
    IN  IF i0 > Len(s) \/ s[i0] # "{" THEN ParseFail
        ELSE LET i1 == SkipWs(s, i0 + 1)
                 o == IF i1 <= Len(s) /\ s[i1] = "}"
                      THEN [ok |-> TRUE, pos |-> i1 + 1, members |-> <<>>]
                      ELSE ParseMembers(s, i0 + 1, <<>>)
             IN  IF o.ok /\ SkipWs(s, o.pos) = Len(s) + 1 THEN o ELSE ParseFail

\* j.get(key): the value of the last member named key, None if there is none
DictGet(members, key) ==
    LET at == {m \in 1..Len(members) : members[m][1] = key}
    IN  IF at = {} THEN JsonNull ELSE members[MaxOf(at)][2]

\* int(text): surrounding whitespace and a sign allowed, digits required
IntOfText(v) ==
    LET t == Strip(v)
        signed == t # <<>> /\ t[1] \in {"+", "-"}
        body == IF signed THEN Tail(t) ELSE t
    IN  IF body = <<>> \/ \E i \in 1..Len(body) : body[i] \notin DigitSet
        THEN [ok |-> FALSE, v |-> 0]
        ELSE [ok |-> TRUE,
              v |-> IF signed /\ t[1] = "-" THEN 0 - NatOf(body) ELSE NatOf(body)]

\* int(ps) of line 72: a fraction is cut towards zero, None raises
IntOf(ps) ==
    IF ps.t \in {"int", "bool"} THEN [ok |-> TRUE, v |-> ps.v]
    ELSE IF ps.t = "float"
    THEN [ok |-> TRUE, v |-> IF ps.neg THEN 0 - ps.whole ELSE ps.whole]
    ELSE IF ps.t = "str" THEN IntOfText(ps.v)
    ELSE [ok |-> FALSE, v |-> 0]

\* the key of line 67
KeyPredictedStars ==
    <<"p","r","e","d","i","c","t","e","d","_","s","t","a","r","s">>

PredNone == [t |-> "none", v |-> 0]

\* an output of the gateway that is no string
OutNotStr == <<"<obj>">>

\* lines 59-80: the prediction and the validity of one raw output
ParseRow(out) ==
    IF out = OutNotStr THEN [pred |-> PredNone, valid |-> FALSE]
    ELSE LET start == Find(out, "{")
             end == RFind(out, "}")
         IN  IF start = 0 \/ end = 0 THEN [pred |-> PredNone, valid |-> FALSE]
             ELSE LET j == JsonLoads(SubSeq(out, start, end))
                  IN  IF ~j.ok THEN [pred |-> PredNone, valid |-> FALSE]
                      ELSE LET ps == DictGet(j.members, KeyPredictedStars)
                           IN  IF ps.t \in {"int", "bool"} /\ MinRating <= ps.v
                                  /\ ps.v <= MaxRating
                               THEN [pred |-> [t |-> ps.t, v |-> ps.v], valid |-> TRUE]
                               ELSE IF IntOf(ps).ok /\ MinRating <= IntOf(ps).v
                                       /\ IntOf(ps).v <= MaxRating
                               THEN [pred |-> JsonInt(IntOf(ps).v), valid |-> TRUE]
                               ELSE [pred |-> PredNone, valid |-> FALSE]

\* a / b of Python: the quotient as the pair of its terms, or the error raised
PyDiv(a, b) ==
    IF b = 0 THEN [raised |-> TRUE, v |-> <<0, 0>>] ELSE [raised |-> FALSE, v |-> <<a, b>>]

AccNone == <<>>

\* lines 87-93: validity rate and accuracy of one template
Summarise(truths, preds, valids) ==
    LET validRows == {i \in 1..Len(valids) : valids[i]}
        hits == {i \in validRows : preds[i].v = truths[i]}
        rate == PyDiv(Cardinality(validRows), Len(valids))
    IN  IF rate.raised THEN [raised |-> TRUE, rate |-> rate.v, acc |-> AccNone]
        ELSE [raised |-> FALSE, rate |-> rate.v,
              acc |-> IF Cardinality(validRows) > 0
                      THEN <<Cardinality(hits), Cardinality(validRows)>>
                      ELSE AccNone]

OutJson4 ==
    <<"{","\"","p","r","e","d","i","c","t","e","d","_","s","t","a","r","s","\"",":"," ","4",",",
      " ","\"","e","x","p","l","a","n","a","t","i","o","n","\"",":","\"","o","k","\"","}">>

OutSentiment4 ==
    <<"S","e","n","t","i","m","e","n","t",":"," ","p","o","s","i","t","i","v","e","\n","{","\"",
      "p","r","e","d","i","c","t","e","d","_","s","t","a","r","s","\"",":"," ","4",","," ","\"",
      "e","x","p","l","a","n","a","t","i","o","n","\"",":","\"","o","k","\"","}">>

OutNoBraces ==
    <<"f","o","u","r"," ","s","t","a","r","s">>

OutString3 ==
    <<"{","\"","p","r","e","d","i","c","t","e","d","_","s","t","a","r","s","\"",":"," ","\"",
      "3","\"","}">>

OutSeven ==
    <<"{","\"","p","r","e","d","i","c","t","e","d","_","s","t","a","r","s","\"",":"," ","7",
      "}">>

OutFloat ==
    <<"{","\"","p","r","e","d","i","c","t","e","d","_","s","t","a","r","s","\"",":"," ","4",".",
      "7","}">>

OutTrue ==
    <<"{","\"","p","r","e","d","i","c","t","e","d","_","s","t","a","r","s","\"",":"," ","t","r",
      "u","e","}">>

OutFalse ==
    <<"{","\"","p","r","e","d","i","c","t","e","d","_","s","t","a","r","s","\"",":"," ","f","a",
      "l","s","e","}">>

OutMissing ==
    <<"{","\"","e","x","p","l","a","n","a","t","i","o","n","\"",":","\"","o","k","\"","}">>

OutReversed ==
    <<"}"," ","{">>

OutTrailing ==
    <<"{","\"","p","r","e","d","i","c","t","e","d","_","s","t","a","r","s","\"",":"," ","2","}",
      " ","}">>

OutOpenOnly ==
    <<"{","\"","p","r","e","d","i","c","t","e","d","_","s","t","a","r","s","\"",":"," ","5">>

OutWord ==
    <<"{","\"","p","r","e","d","i","c","t","e","d","_","s","t","a","r","s","\"",":"," ","\"",
      "a","b","c","\"","}">>

OutNull ==
    <<"{","\"","p","r","e","d","i","c","t","e","d","_","s","t","a","r","s","\"",":"," ","n","u",
      "l","l","}">>

OutWrapped ==
    <<"[","{","\"","p","r","e","d","i","c","t","e","d","_","s","t","a","r","s","\"",":"," ","3",
      "}","]"," ","d","o","n","e">>

OutNegative ==
    <<"{","\"","p","r","e","d","i","c","t","e","d","_","s","t","a","r","s","\"",":"," ","-","3",
      "}">>

OutTwice ==
    <<"{","\"","p","r","e","d","i","c","t","e","d","_","s","t","a","r","s","\"",":"," ","9",",",
      " ","\"","p","r","e","d","i","c","t","e","d","_","s","t","a","r","s","\"",":"," ","2",
      "}">>

\* rows of the sample: a raw output of the gateway and the true stars
SampleRows ==
    {<<OutJson4, 4>>, <<OutJson4, 5>>, <<OutSentiment4, 4>>, <<OutNoBraces, 4>>,
     <<OutString3, 3>>, <<OutSeven, 5>>, <<OutFloat, 4>>, <<OutTrue, 1>>,
     <<OutFalse, 1>>, <<OutMissing, 2>>, <<OutReversed, 3>>, <<OutTrailing, 2>>,
     <<OutOpenOnly, 5>>, <<OutWord, 3>>, <<OutNull, 1>>, <<OutWrapped, 3>>,
     <<OutNegative, 3>>, <<OutTwice, 2>>, <<ErrCallFailed, 4>>, <<OutNotStr, 2>>}

\* rows in the sample
MaxSample == 2

Samples == UNION {[1..n -> SampleRows] : n \in 0..MaxSample}

EvInit ==
    /\ ev \in {[phase |-> "parse", rows |-> r, preds |-> <<>>, valids |-> <<>>] :
                 r \in Samples}
    /\ sheet = <<>> /\ backupExists = FALSE /\ backup = <<>> /\ nextId = 0
    /\ last = [op |-> "none"] /\ enr = [phase |-> "none"] /\ gw = [phase |-> "none"]
    /\ pipe = [phase |-> "none"] /\ race = [phase |-> "none"]

\* one turn of the loop of lines 58-80
EvParseRow ==
    /\ ev.phase = "parse" /\ Len(ev.preds) < Len(ev.rows)
    /\ LET r == ParseRow(ev.rows[Len(ev.preds) + 1][1])
       IN  ev' = [ev EXCEPT !.preds = Append(@, r.pred), !.valids = Append(@, r.valid)]
    /\ UNCHANGED <<sheet, backupExists, backup, nextId, last, enr, gw, pipe, race>>

\* lines 87-93 once every output is parsed
EvSummarise ==
    /\ ev.phase = "parse" /\ Len(ev.preds) = Len(ev.rows)
    /\ LET sm == Summarise([i \in 1..Len(ev.rows) |-> ev.rows[i][2]], ev.preds, ev.valids)
       IN  ev' = [phase |-> IF sm.raised THEN "error" ELSE "summarised",
                  rows |-> ev.rows, preds |-> ev.preds, valids |-> ev.valids,
                  rate |-> sm.rate, acc |-> sm.acc]
    /\ UNCHANGED <<sheet, backupExists, backup, nextId, last, enr, gw, pipe, race>>

EvNext == EvParseRow \/ EvSummarise

SpecEval == EvInit /\ [][EvNext]_vars

-----------------------------------------------------------------------------
(* notebooks/task1_rating_prompts.py lines 45-97: the whole run, the three  *)
(* templates one after the other, each gateway call a step.                *)

Templates == <<"A", "B", "C">>

\* what genai_generate_text may give for one prompt of the run
HarnessResults == {GwSays(OutJson4), GwSays(OutNoBraces), GwSays(OutSeven), GwFail}

\* the true stars of the rows of data/eval_sample.csv
HarnessTruths == [i \in 1..MaxSample |-> ((3 * i) % MaxRating) + 1]

HarnessInit ==
    /\ ev \in {[phase |-> "collect", truths |-> SubSeq(HarnessTruths, 1, n), cols |-> <<>>,
                outs |-> <<>>, oks |-> <<>>, preds |-> <<>>, valids |-> <<>>,
                summary |-> <<>>] : n \in 0..MaxSample}
    /\ sheet = <<>> /\ backupExists = FALSE /\ backup = <<>> /\ nextId = 0
    /\ last = [op |-> "none"] /\ enr = [phase |-> "none"] /\ gw = [phase |-> "none"]
    /\ pipe = [phase |-> "none"] /\ race = [phase |-> "none"]

\* lines 48-54: one gateway call; the text is kept whatever ok says
HarnessCall ==
    /\ ev.phase = "collect" /\ Len(ev.outs) < Len(ev.truths)
    /\ \E g \in HarnessResults :
         ev' = [ev EXCEPT !.outs = Append(@, g.text), !.oks = Append(@, g.ok)]
    /\ UNCHANGED <<sheet, backupExists, backup, nextId, last, enr, gw, pipe, race>>

\* lines 55-57: the raw column is stored and the parse loop starts
HarnessCollected ==
    /\ ev.phase = "collect" /\ Len(ev.outs) = Len(ev.truths)
    /\ ev' = [ev EXCEPT !.phase = "parse", !.preds = <<>>, !.valids = <<>>]
    /\ UNCHANGED <<sheet, backupExists, backup, nextId, last, enr, gw, pipe, race>>

\* one turn of the loop of lines 58-80
HarnessParseRow ==
    /\ ev.phase = "parse" /\ Len(ev.preds) < Len(ev.outs)
    /\ LET r == ParseRow(ev.outs[Len(ev.preds) + 1])
       IN  ev' = [ev EXCEPT !.preds = Append(@, r.pred), !.valids = Append(@, r.valid)]
    /\ UNCHANGED <<sheet, backupExists, backup, nextId, last, enr, gw, pipe, race>>

\* lines 81-83: the columns of the template are stored; the next template, or
\* the summary loop after the last one
HarnessTemplateDone ==
    /\ ev.phase = "parse" /\ Len(ev.preds) = Len(ev.outs)
    /\ ev' = [ev EXCEPT !.cols = Append(@, [name |-> Templates[Len(ev.cols) + 1],
                                           outs |-> ev.outs, oks |-> ev.oks,
                                           preds |-> ev.preds, valids |-> ev.valids]),
                        !.phase = IF Len(ev.cols) + 1 < Len(Templates) THEN "collect"
                                  ELSE "summary",
                        !.outs = <<>>, !.oks = <<>>, !.preds = <<>>, !.valids = <<>>]
    /\ UNCHANGED <<sheet, backupExists, backup, nextId, last, enr, gw, pipe, race>>

\* one turn of the loop of lines 86-93; an exception ends the run
HarnessSummarise ==
    /\ ev.phase = "summary" /\ Len(ev.summary) < Len(Templates)
    /\ LET c == ev.cols[Len(ev.summary) + 1]
           sm == Summarise(ev.truths, c.preds, c.valids)
       IN  ev' = IF sm.raised THEN [ev EXCEPT !.phase = "error"]
                 ELSE [ev EXCEPT !.summary = Append(@, [Approach |-> c.name,
                                                        Accuracy |-> sm.acc,
                                                        JSON_valid_rate |-> sm.rate])]
    /\ UNCHANGED <<sheet, backupExists, backup, nextId, last, enr, gw, pipe, race>>

\* lines 95-97: the summary table and the full table are written
HarnessWrite ==
    /\ ev.phase = "summary" /\ Len(ev.summary) = Len(Templates)
    /\ ev' = [ev EXCEPT !.phase = "done"]
    /\ UNCHANGED <<sheet, backupExists, backup, nextId, last, enr, gw, pipe, race>>

HarnessNext ==
    \/ HarnessCall \/ HarnessCollected \/ HarnessParseRow \/ HarnessTemplateDone
    \/ HarnessSummarise \/ HarnessWrite

SpecHarness == HarnessInit /\ [][HarnessNext]_vars

-----------------------------------------------------------------------------
(* C13: which raw outputs the harness counts as valid                      *)

\* the stars the claim reads from a raw output, 0 when it calls the row
\* invalid: the text from the first { to the last } is a JSON object whose
\* predicted_stars is an integer, or a string of digits, within 1..5
ClaimedStars(out) ==
    IF out = OutNotStr \/ Find(out, "{") = 0 \/ RFind(out, "}") = 0 THEN 0
    ELSE LET j == JsonLoads(SubSeq(out, Find(out, "{"), RFind(out, "}")))
             ps == DictGet(j.members, KeyPredictedStars)
             n == IF ps.t = "int" THEN ps.v
                  ELSE IF ps.t = "str" /\ IntOfText(ps.v).ok THEN IntOfText(ps.v).v
                  ELSE 0
         IN  IF j.ok /\ MinRating <= n /\ n <= MaxRating THEN n ELSE 0

\* C13: every parsed row is valid exactly when the text from its first { to
\* its last } parses as a JSON object whose predicted_stars is an integer in
\* 1..5 (a numeric string counting as its integer), the prediction being that
\* integer, and is invalid with no prediction otherwise.
C13_ValidIffIntegerInRange ==
    ev.phase # "none" =>
        \A i \in 1..Len(ev.preds) :
            LET n == ClaimedStars(ev.rows[i][1])
            IN  /\ ev.valids[i] = (n # 0)
                /\ ev.preds[i] = IF n # 0 THEN JsonInt(n) ELSE PredNone

-----------------------------------------------------------------------------
(* C14: validity rate and accuracy of a template                           *)

ValidCount == Cardinality({i \in 1..Len(ev.valids) : ev.valids[i]})

HitCount ==
    Cardinality({i \in 1..Len(ev.valids) : ev.valids[i] /\ ev.preds[i].v = ev.rows[i][2]})

\* C14: once the rows are parsed the summary is produced without an error,
\* json_valid_rate is valid_count / sample_size and accuracy is the share of
\* valid rows whose prediction equals the true stars, absent when no row is
\* valid.
C14_RatesAsClaimed ==
    (ev.phase \in {"summarised", "error"}) =>
        /\ ev.phase = "summarised"
        /\ ev.rate = <<ValidCount, Len(ev.rows)>>
        /\ ev.acc = IF ValidCount = 0 THEN AccNone ELSE <<HitCount, ValidCount>>

-----------------------------------------------------------------------------
(* C15: the records of the primary store are well-formed                   *)

\* the records a reader of the store gets
Persisted == SheetToDf(sheet).rows

RatingTexts == {Digits(n) : n \in Ratings}

\* C15: in every reachable state the records of the store have pairwise
\* distinct ids, a rating that is an integer of 1..5, a non-empty review and
\* non-empty ai_response, ai_summary and ai_actions.
C15_RecordsWellFormed ==
    /\ \A i, j \in 1..Len(Persisted) : Persisted[i][1] = Persisted[j][1] => i = j
    /\ \A i \in 1..Len(Persisted) :
          /\ Persisted[i][3] \in RatingTexts
          /\ Persisted[i][4] # <<>>
          /\ \A k \in 5..7 : Truthy(Persisted[i][k])

-----------------------------------------------------------------------------
(* C17: a re-run changes ai_summary and ai_actions only                    *)

\* C17: a re-run step adds no row and deletes none, leaves the header as it
\* is and changes no cell outside the ai_summary and ai_actions columns.
C17_RerunKeepsOtherFields ==
    [][last'.op = "rerun" =>
         /\ Len(sheet') = Len(sheet)
         /\ \A i \in 1..Len(sheet) :
               /\ Len(sheet'[i]) = Len(sheet[i])
               /\ \A k \in 1..Len(sheet[i]) :
                     (i = 1 \/ k \notin {ColIndex(Header, ColAiSummary),
                                         ColIndex(Header, ColAiActions)})
                     => sheet'[i][k] = sheet[i][k]]_vars

\* a re-run has replaced both fields of the first submission
C17_Witness ==
    /\ last.op = "rerun" /\ last.msg = "updated" /\ last.writes = 2
    /\ \E i \in 2..Len(sheet) :
          /\ sheet[i][1] = NewId(1)
          /\ sheet[i][ColIndex(Header, ColAiSummary)] = UpdSummary
          /\ sheet[i][ColIndex(Header, ColAiActions)] = UpdActions
          /\ sheet[i][ColIndex(Header, ColAiResponse)] = FallbackResponse

-----------------------------------------------------------------------------
(* C19: what the admin page lists when the store cannot be read            *)

\* C19: whenever the admin page has loaded its table, a failed read of the
\* store was reported as an error and every submission listed is a record of
\* the store: none comes from the local backup.
C19_NoLocalFallbackOnRead ==
    last.op = "load" =>
        /\ last.readFails => last.error
        /\ \A i \in 1..Len(last.ids) :
              \E j \in 1..Len(Persisted) : Persisted[j][1] = last.ids[i]

-----------------------------------------------------------------------------
(* C18: the keyword rules of the actions fallback                          *)

\* the rule named by the claim matches the lower-cased review
RuleMatches(review, words) == \E w \in words : Contains(Lower(review), w)

\* the number of lines of a text
LineCount(t) == 1 + Cardinality({i \in 1..Len(t) : t[i] = "\n"})

\* C18: when the actions call fails, ai_actions is the newline-joined list of
\* one bullet per matching rule in the order speed/staffing, food
\* temperature, staff training, each rule decided on its own over the
\* lower-cased review; the generic bullet is there exactly when no rule
\* matches and never beside a rule bullet; the text has 1 to 3 bullets.
C18_RulesIndependentInOrder ==
    (EnrOut /\ ~IsBlank(enr.review) /\ ~enr.g[3].ok) =>
        LET speed == RuleMatches(enr.review, {Kw_slow, Kw_wait, Kw_delay})
            food  == RuleMatches(enr.review, {Kw_cold, Kw_undercooked, Kw_burnt, Kw_temperature})
            staff == RuleMatches(enr.review, {Kw_rude, Kw_unfriendly, Kw_hostile})
            bullets == (IF speed THEN <<BulletSpeed>> ELSE <<>>)
                       \o (IF food THEN <<BulletFood>> ELSE <<>>)
                       \o (IF staff THEN <<BulletStaff>> ELSE <<>>)
            out == enr.row[7]
        IN  /\ out = JoinLines(IF bullets = <<>> THEN <<BulletGeneric>> ELSE bullets)
            /\ Contains(out, BulletSpeed) <=> speed
            /\ Contains(out, BulletFood) <=> food
            /\ Contains(out, BulletStaff) <=> staff
            /\ Contains(out, BulletGeneric) <=> ~(speed \/ food \/ staff)
            /\ LineCount(out) \in 1..3
            /\ LineCount(out) = IF bullets = <<>> THEN 1 ELSE Len(bullets)

\* the speed and staff rules match and the food rule does not: two bullets,
\* speed first
C18_Witness ==
    /\ EnrOut /\ enr.review = RevWaitUnfriendly /\ ~enr.g[3].ok
    /\ enr.row[7] = BulletSpeed \o <<"\n">> \o BulletStaff

-----------------------------------------------------------------------------
(* C16: the positions one submission moves through (SpecPipeline)          *)

\* the moves the claim allows, a new submission starting after a terminal one
AllowedMoves ==
    {<<"Idle", "Received">>, <<"Received", "Rejected">>, <<"Received", "Validated">>,
     <<"Validated", "Enriched">>, <<"Enriched", "Persisted">>,
     <<"Enriched", "PersistFailed">>, <<"PersistFailed", "LocallyBackedUp">>}
    \cup {<<t, "Received">> : t \in Terminal}

\* C16: a submission moves only along Received -> Rejected, Received ->
\* Validated -> Enriched -> Persisted and Enriched -> PersistFailed ->
\* LocallyBackedUp; it is Persisted only if append_submission returned and
\* PersistFailed or LocallyBackedUp only if it raised; the sheet and the
\* backup are written only once the enrichment is complete; the three texts
\* are shown only in Persisted; and every received submission ends in one of
\* Rejected, Persisted, LocallyBackedUp and stays there.
C16_SubmissionStateMachine ==
    /\ [][/\ pipe'.state # pipe.state => <<pipe.state, pipe'.state>> \in AllowedMoves
          /\ (sheet' # sheet \/ backup' # backup \/ backupExists' # backupExists)
                => /\ pipe.state \in {"Enriched", "PersistFailed"}
                   /\ Len(pipe.row) = Len(Header)
                   /\ \A k \in 5..7 : pipe.row[k] # <<>>
          /\ (pipe.state \in Terminal /\ pipe'.state # "Received") => pipe' = pipe]_vars
    /\ [](pipe.state \notin {"Idle"} =>
            /\ pipe.state = "Persisted" => pipe.append = "returned"
            /\ pipe.state \in {"PersistFailed", "LocallyBackedUp"} => pipe.append = "raised"
            /\ pipe.state \in {"Received", "Validated", "Enriched", "Rejected"}
                  => pipe.append = "not called"
            /\ pipe.shown => pipe.state = "Persisted")
    /\ [](pipe.state = "Received" => <>(pipe.state \in Terminal))

\* a submission was backed up after an earlier one was persisted, and its
\* texts were not shown
C16_Witness ==
    /\ pipe.state = "LocallyBackedUp" /\ pipe.append = "raised" /\ ~pipe.shown
    /\ backupExists /\ backup # <<>> /\ backup[Len(backup)][1] = pipe.row[1]
    /\ Len(Records(sheet)) = 1 /\ Records(sheet)[1][1] # pipe.row[1]

-----------------------------------------------------------------------------
(* C20: two racing update_submission_by_id calls (SpecRace)                *)

\* the text caller p writes into column k, <<>> if it writes none
RaceValue(p, k) ==
    LET hits == {i \in 1..Len(race.c[p].updates) :
                    ColIndex(Header, race.c[p].updates[i][1]) = k}
    IN  IF hits = {} THEN <<>> ELSE race.c[p].updates[CHOOSE i \in hits : TRUE][2]

\* C20: at every point of the race each cell of the two updated columns of the
\* targeted row holds the text of the call that wrote it last (its old text
\* if none did), every other cell of the sheet is as before the race, and when
\* both calls have returned every field some call updates holds the text of
\* one of the calls updating it.
C20_LastWritePerFieldWins ==
    race.phase = "run" =>
        LET target == FindRow(race.orig, race.id)
        IN  /\ Len(sheet) = Len(race.orig)
            /\ \A i \in 1..Len(sheet) :
                  /\ Len(sheet[i]) = Len(race.orig[i])
                  /\ \A k \in 1..Len(sheet[i]) :
                        IF i = target /\ k \in UpdatedCols /\ race.lastWriter[k] # 0
                        THEN sheet[i][k] = RaceValue(race.lastWriter[k], k)
                        ELSE sheet[i][k] = race.orig[i][k]
            /\ (\A p \in Callers : race.c[p].pc = "done") =>
                  /\ \A p \in Callers : race.c[p].ret = "True"
                  /\ \A k \in UpdatedCols :
                        IF \E p \in Callers : RaceValue(p, k) # <<>>
                        THEN \E p \in Callers : /\ RaceValue(p, k) # <<>>
                                                /\ sheet[target][k] = RaceValue(p, k)
                        ELSE sheet[target][k] = race.orig[target][k]

\* both calls update both fields of the second record and have returned: the
\* row holds the summary of the first call and the actions of the second
C20_Witness ==
    /\ race.phase = "run" /\ race.id = NewId(2)
    /\ \A p \in Callers : race.c[p].pc = "done" /\ Len(race.c[p].updates) = 2
    /\ sheet[3][ColIndex(Header, ColAiSummary)] = RaceSummary(1)
    /\ sheet[3][ColIndex(Header, ColAiActions)] = RaceActions(2)
    /\ sheet[2] = race.orig[2]

-----------------------------------------------------------------------------
(* C21: one triple per sampled row and one summary row per template        *)
(* (SpecHarness)                                                           *)

\* C21: every template stored has one raw output, one prediction and one
\* validity flag per sampled row, in sample order; a gateway failure is
\* stored as its error text, invalid, with no prediction, and so is an output
\* holding no JSON object; the run raises no error, and when it has ended the
\* summary has one row per template, in template order.
C21_OneTriplePerRowOneSummaryPerTemplate ==
    ev.phase \in {"collect", "parse", "summary", "done", "error"} =>
        /\ \A t \in 1..Len(ev.cols) :
              LET c == ev.cols[t]
              IN  /\ c.name = Templates[t]
                  /\ Len(c.outs) = Len(ev.truths)
                  /\ Len(c.preds) = Len(ev.truths)
                  /\ Len(c.valids) = Len(ev.truths)
                  /\ \A i \in 1..Len(ev.truths) :
                        /\ (~c.oks[i]) =>
                              /\ StartsWith(c.outs[i], ErrCallPrefix)
                              /\ ~c.valids[i] /\ c.preds[i] = PredNone
                        /\ c.outs[i] = OutNoBraces => ~c.valids[i] /\ c.preds[i] = PredNone
                        /\ c.valids[i] <=> c.preds[i] # PredNone
        /\ ev.phase # "error"
        /\ ev.phase = "done" =>
              /\ Len(ev.cols) = Len(Templates)
              /\ Len(ev.summary) = Len(Templates)
              /\ \A t \in 1..Len(Templates) : ev.summary[t].Approach = Templates[t]

-----------------------------------------------------------------------------
(* C22: a re-run writes a field only when its own gateway call succeeded   *)
(* (SpecRerun)                                                             *)

\* C22: on a re-run step a cell changes only in the selected record, only in
\* ai_summary or ai_actions, and only to the text of its own gateway call when
\* that call returned ok; with the summary call failed and the actions call
\* ok only ai_actions is written, and the other way round; with both failed
\* update_submission_by_id is not called and the sheet is unchanged; no cell
\* written holds a gateway error text.
C22_RerunWritesOnlySucceededFields ==
    [][last'.op = "rerun" =>
         LET idx == FindRow(sheet, last'.id)
             cs == ColIndex(Header, ColAiSummary)
             ca == ColIndex(Header, ColAiActions)
             s == last'.s
             a == last'.a
         IN  /\ Len(sheet') = Len(sheet)
             /\ \A i \in 1..Len(sheet) : \A k \in 1..Len(sheet[i]) :
                   sheet'[i][k] # sheet[i][k] =>
                      /\ i = idx /\ k \in {cs, ca}
                      /\ k = cs => (s.ok /\ sheet'[i][k] = s.text)
                      /\ k = ca => (a.ok /\ sheet'[i][k] = a.text)
                      /\ ~StartsWith(sheet'[i][k], ErrorMarker)
             /\ (~s.ok /\ ~a.ok) => (last'.msg = "nothing" /\ sheet' = sheet)
             /\ (s.ok \/ a.ok) => last'.msg # "nothing"
             /\ last'.msg = "updated" =>
                   /\ last'.writes = (IF s.ok THEN 1 ELSE 0) + (IF a.ok THEN 1 ELSE 0)
                   /\ sheet'[idx][cs] = IF s.ok THEN s.text ELSE sheet[idx][cs]
                   /\ sheet'[idx][ca] = IF a.ok THEN a.text ELSE sheet[idx][ca]]_vars

\* the summary call failed and the actions call answered: ai_actions of the
\* first record is the answer, its ai_summary is still the one written at
\* creation
C22_Witness ==
    /\ last.op = "rerun" /\ last.id = NewId(1) /\ last.msg = "updated"
    /\ ~last.s.ok /\ last.a.ok /\ last.writes = 1
    /\ sheet[2][ColIndex(Header, ColAiActions)] = UpdActions
    /\ sheet[2][ColIndex(Header, ColAiSummary)] = RaceSheet[2][ColIndex(Header, ColAiSummary)]
    /\ sheet[2][ColIndex(Header, ColAiSummary)] = SummaryFallback(RevNA)

-----------------------------------------------------------------------------
(* C23: what update_submission_by_id returns and which row it writes       *)
(* (SpecUpdate)                                                            *)

\* the sheet rows under the header whose id is the one given
RowsWithId(sh, subId) == {i \in 2..Len(sh) : sh[i][1] = subId}

\* the keys of an update set that are columns of the header
SchemaKeys(updates) ==
    {updates[n][1] : n \in 1..Len(updates)} \cap {Header[k] : k \in 1..Len(Header)}

\* C23: a call that the store answers returns true exactly when a row holds
\* the id, whatever the update set; it makes one write per key of the update
\* set that is a column of the header and none for any other key, so with
\* every key outside the header it returns true for an existing id and the
\* sheet is unchanged; only the first row holding the id is written.
C23_TrueIffRowExists ==
    [][last'.op = "update" =>
         LET rows == RowsWithId(sheet, last'.id)
             keys == SchemaKeys(last'.updates)
         IN  /\ ~last'.raised =>
                   /\ last'.ret <=> rows # {}
                   /\ last'.writes = IF rows = {} THEN 0 ELSE Cardinality(keys)
             /\ Len(sheet') = Len(sheet)
             /\ \A i \in 1..Len(sheet) :
                   /\ Len(sheet'[i]) = Len(sheet[i])
                   /\ \A k \in 1..Len(sheet[i]) :
                         sheet'[i][k] # sheet[i][k] =>
                            /\ rows # {} /\ i = MinOf(rows)
                            /\ Header[k] \in keys
             /\ (keys = {} /\ ~last'.raised) => sheet' = sheet
             /\ (~last'.raised /\ rows # {}) =>
                   \A n \in 1..Len(last'.updates) :
                      last'.updates[n][1] \in keys =>
                         sheet'[MinOf(rows)][ColIndex(Header, last'.updates[n][1])]
                            = last'.updates[n][2]]_vars

\* an update with one key outside the header and ai_actions returned true on
\* the sheet where two records share the id "id": the first of the two holds
\* the new text, the second does not
C23_Witness ==
    /\ last.op = "update" /\ last.id = ColId /\ last.ret /\ last.writes = 1
    /\ last.updates = <<<<ColSentiment, UpdSummary>>, <<ColAiActions, UpdActions>>>>
    /\ Cardinality(RowsWithId(sheet, ColId)) = 2
    /\ sheet[2][ColIndex(Header, ColAiActions)] = UpdActions
    /\ sheet[3][ColIndex(Header, ColAiActions)] = ColAiActions
    /\ sheet[2][ColIndex(Header, ColAiSummary)] = ColAiSummary
====
